---- MODULE Spec2Model ----
(***************************************************************************)
(* Model of the VL53LX outlier filter (src/src/vl53lx_outlier_filter.c)    *)
(* and of the histogram read-out of the VL53L3CX driver                    *)
(* (vl53l3cx_get_ranging_data in src/src/vl53lx_platform.c).               *)
(*                                                                         *)
(* The filter's float fields are IEEE-754 binary32 values.  A binary32     *)
(* value is modelled as a record [m, e] standing for m * 2^e, with m = 0   *)
(* (and e = 0) for zero and 2^23 <= |m| < 2^24 otherwise.  Every           *)
(* arithmetic operator rounds to nearest, ties to even, as the C           *)
(* operators on float do (each operation rounded on its own, no fused      *)
(* multiply-add).  A result too large for binary32 is an infinity, written *)
(* [m = +-2^23, e = 105], and NaN is written [m = 0, e = 105].  The values *)
(* the filter reaches stay far above the subnormal range, so subnormals    *)
(* and the sign of zero are not represented.                               *)
(***************************************************************************)
EXTENDS Integers, Sequences, FiniteSets, TLC

\* ------------------------------------------------------------------------
\* binary32 arithmetic
\* ------------------------------------------------------------------------

Pow2(n) == 2^n

Abs(i) == IF i < 0 THEN -i ELSE i

Sgn(i) == IF i < 0 THEN -1 ELSE 1

\* Number of bits of a natural number below 2^31 (0 for 0).
BitLen4(n) == IF n < 4 THEN (IF n < 2 THEN n ELSE 2) ELSE (IF n < 8 THEN 3 ELSE 4)

BitLen8(n) == IF n < 16 THEN BitLen4(n) ELSE 4 + BitLen4(n \div 16)

BitLen(n) ==
    IF n < 65536
    THEN (IF n < 256 THEN BitLen8(n) ELSE 8 + BitLen8(n \div 256))
    ELSE (IF n < 16777216 THEN 16 + BitLen8(n \div 65536)
          ELSE 24 + BitLen8(n \div 16777216))

F32Zero == [m |-> 0, e |-> 0]

F32NaN == [m |-> 0, e |-> 105]

F32Inf(sign) == [m |-> sign * 8388608, e |-> 105]

IsNaN(a) == a.m = 0 /\ a.e = 105

IsInf(a) == a.m # 0 /\ a.e = 105

\* The value of sign * q * 2^e with 2^23 <= q < 2^24: an infinity beyond the
\* largest exponent.
F32Pack(sign, q, e) ==
    IF e > 104 THEN F32Inf(sign) ELSE [m |-> sign * q, e |-> e]

\* The binary32 nearest to sign * (M + f) * 2^E, where M is a natural number
\* below 2^31 and f is a fraction in [0,1) that is non-zero iff sticky.
F32Round(sign, M, E, sticky) ==
    IF M = 0 THEN F32Zero
    ELSE LET k == BitLen(M) - 24
         IN  IF k <= 0
             THEN F32Pack(sign, M * Pow2(-k), E + k)
             ELSE LET q    == M \div Pow2(k)
                      r    == M % Pow2(k)
                      half == Pow2(k - 1)
                      up   == \/ r > half
                              \/ r = half /\ sticky
                              \/ r = half /\ ~sticky /\ q % 2 = 1
                      q1   == IF up THEN q + 1 ELSE q
                  IN  IF q1 = 16777216
                      THEN F32Pack(sign, 8388608, E + k + 1)
                      ELSE F32Pack(sign, q1, E + k)

\* (float)n for an unsigned 16-bit n: exact.
F32FromU16(n) == F32Round(1, n, 0, FALSE)

\* a + b on float.
F32Add(a, b) ==
    IF IsNaN(a) \/ IsNaN(b) THEN F32NaN
    ELSE IF IsInf(a) THEN (IF IsInf(b) /\ a.m # b.m THEN F32NaN ELSE a)
    ELSE IF IsInf(b) THEN b
    ELSE IF a.m = 0 THEN b
    ELSE IF b.m = 0 THEN a
    ELSE LET hi == IF a.e >= b.e THEN a ELSE b
             lo == IF a.e >= b.e THEN b ELSE a
             d  == hi.e - lo.e
             H  == Abs(hi.m) * 8
             L  == Abs(lo.m) * 8
             Lq == IF d > 27 THEN 0 ELSE L \div Pow2(d)
             st == IF d > 27 THEN TRUE ELSE L % Pow2(d) # 0
             same == Sgn(hi.m) = Sgn(lo.m)
             S  == IF same THEN H + Lq
                   ELSE IF st THEN H - Lq - 1 ELSE H - Lq
             sg == IF same \/ S >= 0 THEN Sgn(hi.m) ELSE Sgn(lo.m)
         IN  F32Round(sg, Abs(S), hi.e - 3, st)

F32Neg(a) == [m |-> -a.m, e |-> a.e]

\* a - b on float.
F32Sub(a, b) == F32Add(a, F32Neg(b))

\* a * b on float: the 48-bit product of the two 24-bit significands is
\* formed from 12-bit halves, then rounded.
F32Mul(a, b) ==
    IF IsNaN(a) \/ IsNaN(b) THEN F32NaN
    ELSE IF IsInf(a) \/ IsInf(b)
    THEN (IF a.m = 0 \/ b.m = 0 THEN F32NaN ELSE F32Inf(Sgn(a.m) * Sgn(b.m)))
    ELSE IF a.m = 0 \/ b.m = 0 THEN F32Zero
    ELSE LET x  == Abs(a.m)
             y  == Abs(b.m)
             xh == x \div 4096
             xl == x % 4096
             yh == y \div 4096
             yl == y % 4096
             P0 == xl * yl
             P1 == xh * yl + xl * yh
             P2 == xh * yh
             L  == P0 + (P1 % 4096) * 4096
             lo == L % 16777216
             H  == P2 + (P1 \div 4096) + (L \div 16777216)
             sg == Sgn(a.m) * Sgn(b.m)
         IN  \* product = H * 2^24 + lo, 2^22 <= H < 2^24
             IF H >= 8388608
             THEN F32Round(sg, H * 2 + (lo \div 8388608), a.e + b.e + 23,
                           lo % 8388608 # 0)
             ELSE F32Round(sg, H * 4 + (lo \div 4194304), a.e + b.e + 22,
                           lo % 4194304 # 0)

\* n more quotient bits (n <= 7) of r / d, r < d < 2^24, with the quotient
\* so far in q.  Yields <<quotient, remainder>>.
DivBits(q, r, d, n) ==
    <<q * Pow2(n) + (r * Pow2(n)) \div d, (r * Pow2(n)) % d>>

\* a / b on float: 25 quotient bits after the integer bit, and the
\* remainder as the sticky bit.
F32Div(a, b) ==
    IF IsNaN(a) \/ IsNaN(b) THEN F32NaN
    ELSE IF IsInf(a)
    THEN (IF IsInf(b) THEN F32NaN ELSE F32Inf(Sgn(a.m) * Sgn(b.m)))
    ELSE IF IsInf(b) THEN F32Zero
    ELSE IF b.m = 0 THEN (IF a.m = 0 THEN F32NaN ELSE F32Inf(Sgn(a.m)))
    ELSE IF a.m = 0 THEN F32Zero
    ELSE LET x  == Abs(a.m)
             y  == Abs(b.m)
             q1 == DivBits(x \div y, x % y, y, 7)
             q2 == DivBits(q1[1], q1[2], y, 7)
             q3 == DivBits(q2[1], q2[2], y, 7)
             qr == DivBits(q3[1], q3[2], y, 4)
             sg == Sgn(a.m) * Sgn(b.m)
         IN  F32Round(sg, qr[1], a.e - b.e - 25, qr[2] # 0)

\* a < b on float.
F32Less(a, b) == F32Sub(a, b).m < 0

\* The integer part of a finite float (truncation toward zero), as the
\* conversion of a float to an integer type takes it.
F32Trunc(a) ==
    IF a.m = 0 THEN 0
    ELSE IF a.e >= 0 THEN a.m * Pow2(a.e)
    ELSE IF a.e < -24 THEN 0
    ELSE Sgn(a.m) * (Abs(a.m) \div Pow2(-a.e))


\* ------------------------------------------------------------------------
\* vl53lx_outlier_filter.c: configuration and state
\* ------------------------------------------------------------------------

VARIABLES
    filter,     \* the vl53lx_filter_t the calls act on
    output_mm,  \* the caller's variable that output_mm points to
    call,       \* the last API call: its arguments, last_output before it,
                \* its local flags and its result
    trace,      \* the calls of a scripted run, in order (empty otherwise)
    result,     \* the vl53l3cx_result_t that vl53l3cx_get_ranging_data fills
    device,     \* the sensor's result registers: whether a histogram is
                \* waiting to be read, its status byte and its bin counts
    handle,     \* the stampfly_tof_handle_t of the two-sensor layer
    g_handle,   \* g_front_handle and g_bottom_handle
    board,      \* the XSHUT levels, the I2C address each sensor answers
                \* to, and the GPIO ISR handlers registered
    task,       \* the position of the task inside a stampfly_tof_* call
    isr         \* the position and the registers of each GPIO ISR handler

\* The variables of the two-sensor layer (stampfly_tof.c).
tof == <<handle, g_handle, board, task, isr>>

vars == <<filter, output_mm, call, trace, result, device, tof>>

VL53L3CX_HISTOGRAM_BINS == 24
VL53L3CX_HISTOGRAM_HEADER_SIZE == 5

\* A sensor with no measurement waiting.
NoData ==
    [ready       |-> FALSE,
     status_byte |-> 0,
     counts      |-> [i \in 0..(VL53L3CX_HISTOGRAM_BINS - 1) |-> 0]]

\* A vl53l3cx_result_t no read-out has written to yet.
NoResult ==
    [distance_mm      |-> 0,
     range_status     |-> 0,
     stream_count     |-> 0,
     bin_data         |-> [i \in 0..(VL53L3CX_HISTOGRAM_BINS - 1) |-> 0],
     ambient_estimate |-> 0,
     peak_bin         |-> 0]

\* --- stampfly_tof.c: the two-sensor layer --------------------------------

VL53L3CX_DEFAULT_I2C_ADDR == 41
STAMPFLY_TOF_FRONT_I2C_ADDR == 48
STAMPFLY_TOF_BOTTOM_I2C_ADDR == 49

\* "front" and "bottom" name the two sensors; STAMPFLY_TOF_SENSOR_BOTH
\* selects both.
Sensors == {"front", "bottom"}
Selections == {"front", "bottom", "both"}

\* A stampfly_tof_handle_t before stampfly_tof_init: the i2c_addr of its
\* two vl53l3cx_dev_t, the two callbacks, and initialized.
NoHandle ==
    [front_sensor    |-> 0,
     bottom_sensor   |-> 0,
     front_callback  |-> "NULL",
     bottom_callback |-> "NULL",
     initialized     |-> FALSE]

\* "static stampfly_tof_handle_t *g_front_handle = NULL;" and g_bottom_handle.
NoGlobalHandle == [front |-> "NULL", bottom |-> "NULL"]

\* Both sensors held in hardware standby (address 0: the sensor is not on
\* the bus), no ISR handler registered.
BoardOff ==
    [xshut   |-> [front |-> 0, bottom |-> 0],
     addr    |-> [front |-> 0, bottom |-> 0],
     handler |-> [front |-> FALSE, bottom |-> FALSE]]

\* The task is in no stampfly_tof_* call.
TaskIdle ==
    [op       |-> "none",    \* the function the task is in, or was in last
     pc       |-> "idle",    \* the step it is at
     at       |-> "both",    \* the sensor that step is about
     ret      |-> "ESP_OK",  \* what the last call returned
     sensor   |-> "both",    \* the arguments of the call
     callback |-> "NULL",
     done     |-> {}]        \* the steps of the call that succeeded

\* An ISR handler that is not running: h and cb are the registers the
\* build may keep g_*_handle and the callback pointer in, last is how its
\* last run ended.
IsrIdle == [pc |-> "idle", h |-> "NULL", cb |-> "NULL", last |-> "none"]

\* The two-sensor layer at rest.
NoBoard ==
    /\ handle = NoHandle
    /\ g_handle = NoGlobalHandle
    /\ board = BoardOff
    /\ task = TaskIdle
    /\ isr = [front |-> IsrIdle, bottom |-> IsrIdle]

DEFAULT_WINDOW_SIZE == 5
DEFAULT_MAX_CHANGE_RATE_MM == 500
DEFAULT_VALID_STATUS_MASK == 1

\* A window slot that malloc returned and no call has written yet.
UNWRITTEN == -1

\* 0.01f, 1.0f, 1.65685368f (bits 0x3fd413c8), 4.0f and 1000.0f as binary32
\* values.
F32_0_01 == [m |-> 10737418, e |-> -30]
F32_1_0 == [m |-> 8388608, e |-> -23]
F32_1_65685368 == [m |-> 13898696, e |-> -23]
F32_4_0 == [m |-> 8388608, e |-> -21]
F32_2e38 == [m |-> 9860761, e |-> 104]
F32_1000_0 == [m |-> 16384000, e |-> -14]

VL53LX_FilterGetDefaultConfig ==
    [filter_type              |-> "MEDIAN",
     window_size              |-> DEFAULT_WINDOW_SIZE,
     enable_status_check      |-> TRUE,
     enable_rate_limit        |-> TRUE,
     max_change_rate_mm       |-> DEFAULT_MAX_CHANGE_RATE_MM,
     valid_status_mask        |-> DEFAULT_VALID_STATUS_MASK,
     kalman_process_noise     |-> F32_0_01,
     kalman_measurement_noise |-> F32_4_0]

\* The filter a successful VL53LX_FilterInitWithConfig(filter, config) leaves.
VL53LX_FilterInitWithConfig(config) ==
    [config              |-> config,
     buffer              |-> [i \in 1..config.window_size |-> UNWRITTEN],
     status_buffer       |-> [i \in 1..config.window_size |-> UNWRITTEN],
     head                |-> 0,
     count               |-> 0,
     last_output         |-> 0,
     rejected_count      |-> 0,
     samples_since_reset |-> 0,
     kalman_x            |-> F32Zero,
     kalman_p            |-> F32_1000_0,
     kalman_initialized  |-> FALSE,
     initialized         |-> TRUE]

\* VL53LX_FilterReset that leaves last_output as it was.
VL53LX_FilterReset_KeepsOutput(f) ==
    IF ~f.initialized THEN f
    ELSE [f EXCEPT !.head = 0,
                   !.count = 0,
                   !.rejected_count = 0,
                   !.samples_since_reset = 0,
                   !.kalman_x = F32Zero,
                   !.kalman_p = F32_1000_0,
                   !.kalman_initialized = FALSE]

\* VL53LX_FilterReset that leaves the Kalman state as it was.
VL53LX_FilterReset_KeepsKalman(f) ==
    IF ~f.initialized THEN f
    ELSE [f EXCEPT !.head = 0,
                   !.count = 0,
                   !.last_output = 0,
                   !.rejected_count = 0,
                   !.samples_since_reset = 0]

\* VL53LX_FilterReset: the filter it leaves.
VL53LX_FilterReset(f) ==
    IF ~f.initialized THEN f
    ELSE [f EXCEPT !.head = 0,
                   !.count = 0,
                   !.last_output = 0,
                   !.rejected_count = 0,
                   !.samples_since_reset = 0,
                   !.kalman_x = F32Zero,
                   !.kalman_p = F32_1000_0,
                   !.kalman_initialized = FALSE]

\* ------------------------------------------------------------------------
\* VL53LX_FilterUpdate
\* ------------------------------------------------------------------------

\* StatusBit with the shift count taken modulo 8.
StatusBit_Wraps(range_status, valid_status_mask, ub) ==
    (valid_status_mask \div Pow2(range_status % 8)) % 2 = 1

\* (1 << range_status) & valid_status_mask, as a truth value.  range_status
\* is a uint8_t and the shifted 1 an int: a shift by 32 or more is undefined,
\* and ub is the truth value the build then yields.  The mask has 8 bits, so
\* for a defined shift only the bits 0..7 can meet it.
StatusBit(range_status, valid_status_mask, ub) ==
    IF range_status >= 32 THEN ub
    ELSE IF range_status >= 8 THEN FALSE
    ELSE (valid_status_mask \div Pow2(range_status)) % 2 = 1

\* CountRejection that resets at 6 or more.
CountRejection_ResetsAtSix(f) ==
    LET f1 == [f EXCEPT !.rejected_count = (@ + 1) % 256]
    IN  IF f1.rejected_count >= 6
        THEN [filter |-> VL53LX_FilterReset(f1), reset |-> TRUE]
        ELSE [filter |-> f1, reset |-> FALSE]

\* CountRejection that never resets.
CountRejection_NoReset(f) ==
    [filter |-> [f EXCEPT !.rejected_count = (@ + 1) % 256], reset |-> FALSE]

\* filter->rejected_count++ (a uint8_t), then the reset at 5 or more.
\* Yields the filter and whether VL53LX_FilterReset ran.
CountRejection(f) ==
    LET f1 == [f EXCEPT !.rejected_count = (@ + 1) % 256]
    IN  IF f1.rejected_count >= 5
        THEN [filter |-> VL53LX_FilterReset(f1), reset |-> TRUE]
        ELSE [filter |-> f1, reset |-> FALSE]

\* StatusCheck that does not look at enable_status_check.
StatusCheck_AlwaysOn(f, range_status, ub) ==
    IF ~StatusBit(range_status, f.config.valid_status_mask, ub)
    THEN LET r == CountRejection(f)
         IN  [filter |-> r.filter, status_valid |-> FALSE, reset |-> r.reset]
    ELSE [filter |-> f, status_valid |-> TRUE, reset |-> FALSE]

\* "Check range status if enabled".
StatusCheck(f, range_status, ub) ==
    IF /\ f.config.enable_status_check
       /\ ~StatusBit(range_status, f.config.valid_status_mask, ub)
    THEN LET r == CountRejection(f)
         IN  [filter |-> r.filter, status_valid |-> FALSE, reset |-> r.reset]
    ELSE [filter |-> f, status_valid |-> TRUE, reset |-> FALSE]

\* has_previous_output that holds whether or not an output was made.
has_previous_output_Always(f) == TRUE

has_previous_output(f) ==
    IF f.config.filter_type = "KALMAN" THEN f.kalman_initialized
    ELSE f.count > 0

\* effective_rate_limit without the lenient first samples.
effective_rate_limit_NoGrace(f) == f.config.max_change_rate_mm

\* uint16_t effective_rate_limit: the configured limit, or three times it
\* (computed in int, stored in 16 bits) while samples_since_reset < 3.
effective_rate_limit(f) ==
    IF f.samples_since_reset < 3
    THEN (f.config.max_change_rate_mm * 3) % 65536
    ELSE f.config.max_change_rate_mm

\* RateCheck that rejects a change equal to the limit.
RateCheck_AtLimitRejected(f, distance_mm) ==
    IF /\ f.config.enable_rate_limit
       /\ has_previous_output(f)
       /\ Abs(distance_mm - f.last_output) >= effective_rate_limit(f)
    THEN LET r == CountRejection(f)
         IN  [filter |-> r.filter, rate_valid |-> FALSE, reset |-> r.reset]
    ELSE [filter |-> f, rate_valid |-> TRUE, reset |-> FALSE]

\* "Check rate of change if enabled and filter has previous output".
RateCheck(f, distance_mm) ==
    IF /\ f.config.enable_rate_limit
       /\ has_previous_output(f)
       /\ Abs(distance_mm - f.last_output) > effective_rate_limit(f)
    THEN LET r == CountRejection(f)
         IN  [filter |-> r.filter, rate_valid |-> FALSE, reset |-> r.reset]
    ELSE [filter |-> f, rate_valid |-> TRUE, reset |-> FALSE]

\* ClearRejections that leaves the count alone.
ClearRejections_Keeps(f, valid) == f

\* "reset rejection counter if fully valid".
ClearRejections(f, valid) ==
    IF valid THEN [f EXCEPT !.rejected_count = 0] ELSE f

\* KalmanObserve that leaves the covariance at its prediction.
KalmanObserve_KeepsPrediction(f, x_pred, p_pred, K, z) ==
    [f EXCEPT !.kalman_x = F32Add(x_pred, F32Mul(K, F32Sub(z, x_pred))),
              !.kalman_p = p_pred]

\* "Observation valid: perform full update": the estimate and the covariance
\* from the prediction x_pred, p_pred, the gain K and the measurement z.
KalmanObserve(f, x_pred, p_pred, K, z) ==
    [f EXCEPT !.kalman_x = F32Add(x_pred, F32Mul(K, F32Sub(z, x_pred))),
              !.kalman_p = F32Mul(F32Sub(F32_1_0, K), p_pred)]

\* KalmanPredicted whose prediction-only arm forgets the estimate.
KalmanPredicted_CoastForgets(f, distance_mm, valid, x_pred, p_pred) ==
    IF valid
    THEN KalmanObserve(f, x_pred, p_pred,
                       F32Div(p_pred,
                              F32Add(p_pred, f.config.kalman_measurement_noise)),
                       F32FromU16(distance_mm))
    ELSE [f EXCEPT !.kalman_x = x_pred,
                   !.kalman_p = p_pred,
                   !.kalman_initialized = FALSE]

\* The Kalman update once the prediction x_pred, p_pred is made: the
\* observation update with K = p_pred / (p_pred + R) when the sample is
\* valid, the prediction alone otherwise.
KalmanPredicted(f, distance_mm, valid, x_pred, p_pred) ==
    IF valid
    THEN KalmanObserve(f, x_pred, p_pred,
                       F32Div(p_pred,
                              F32Add(p_pred, f.config.kalman_measurement_noise)),
                       F32FromU16(distance_mm))
    ELSE [f EXCEPT !.kalman_x = x_pred,
                   !.kalman_p = p_pred]

\* The Kalman branch on an initialised estimate: the prediction x_pred =
\* kalman_x, p_pred = kalman_p + Q, then the update.
KalmanStep(f, distance_mm, valid) ==
    KalmanPredicted(f, distance_mm, valid, f.kalman_x,
                    F32Add(f.kalman_p, f.config.kalman_process_noise))

\* (uint16_t)a is defined when a is finite and its integer part fits 16
\* bits.
U16Defined(a) ==
    /\ a.e < 105
    /\ a.e <= 0 \/ a.m = 0
    /\ F32Trunc(a) \in 0..65535

\* (uint16_t)a.  Where the conversion is undefined the build decides: 0
\* (the low half of the x86 "integer indefinite" value) or 65535 (a
\* saturating conversion), as ub says.
F32ToU16(a, ub) ==
    IF U16Defined(a) THEN F32Trunc(a) ELSE IF ub THEN 65535 ELSE 0

\* (uint16_t)(kalman_x + 0.5f): the integer part of the float sum.
RoundToU16(x, ub) == F32ToU16(F32Add(x, [m |-> 8388608, e |-> -24]), ub)

\* The result of the Kalman branch for the updated filter f1:
\* filtered_value is the rounded estimate.
KalmanOutput(f1, ub) ==
    [filter |-> f1, done |-> TRUE,
     filtered_value |-> RoundToU16(f1.kalman_x, ub)]

\* KalmanBranch with a bootstrap that leaves kalman_p at its reset value.
KalmanBranch_BootKeepsP(f, distance_mm, valid, ub) ==
    IF ~f.kalman_initialized
    THEN IF valid
         THEN [filter |-> [f EXCEPT !.kalman_x = F32FromU16(distance_mm),
                                    !.kalman_initialized = TRUE],
               done |-> TRUE, filtered_value |-> distance_mm]
         ELSE [filter |-> f, done |-> FALSE, filtered_value |-> 0]
    ELSE KalmanOutput(KalmanStep(f, distance_mm, valid), ub)

\* KalmanBranch with a bootstrap that does not look at the sample's validity.
KalmanBranch_BootAnySample(f, distance_mm, valid, ub) ==
    IF ~f.kalman_initialized
    THEN [filter |-> [f EXCEPT !.kalman_x = F32FromU16(distance_mm),
                               !.kalman_p = f.config.kalman_measurement_noise,
                               !.kalman_initialized = TRUE],
          done |-> TRUE, filtered_value |-> distance_mm]
    ELSE KalmanOutput(KalmanStep(f, distance_mm, valid), ub)

\* The Kalman branch.  Yields the filter, whether the call goes on to write
\* its output, and filtered_value.
KalmanBranch(f, distance_mm, valid, ub) ==
    IF ~f.kalman_initialized
    THEN IF valid
         THEN [filter |-> [f EXCEPT !.kalman_x = F32FromU16(distance_mm),
                                    !.kalman_p = f.config.kalman_measurement_noise,
                                    !.kalman_initialized = TRUE],
               done |-> TRUE, filtered_value |-> distance_mm]
         ELSE [filter |-> f, done |-> FALSE, filtered_value |-> 0]
    ELSE KalmanOutput(KalmanStep(f, distance_mm, valid), ub)

\* ------------------------------------------------------------------------
\* The buffer-based filters
\* ------------------------------------------------------------------------

\* s with v inserted before the first element greater than v (s ascending).
RECURSIVE Insert(_, _)
Insert(s, v) ==
    IF s = <<>> THEN <<v>>
    ELSE IF v < Head(s) THEN <<v>> \o s
    ELSE <<Head(s)>> \o Insert(Tail(s), v)

\* qsort(temp, count, sizeof(uint16_t), compare_uint16): ascending order.
RECURSIVE Sorted(_)
Sorted(s) == IF s = <<>> THEN <<>> ELSE Insert(Sorted(Tail(s)), Head(s))

\* calculate_median that takes the upper of the two middle samples of an
\* even count.
calculate_median_UpperMiddle(buffer, count) ==
    IF count = 0 THEN 0
    ELSE Sorted(SubSeq(buffer, 1, count))[count \div 2 + 1]

calculate_median(buffer, count) ==
    IF count = 0 THEN 0
    ELSE LET temp == Sorted(SubSeq(buffer, 1, count))
         IN  IF count % 2 = 0
             THEN (temp[count \div 2] + temp[count \div 2 + 1]) \div 2
             ELSE temp[count \div 2 + 1]

RECURSIVE SumTo(_, _)
SumTo(buffer, n) == IF n = 0 THEN 0 ELSE buffer[n] + SumTo(buffer, n - 1)

calculate_average(buffer, count) ==
    IF count = 0 THEN 0 ELSE SumTo(buffer, count) \div count

\* Weighted sum of the loop's iterations i..count-1 of
\* calculate_weighted_average: idx = (head + count - 1 - i) % count,
\* weight = count - i.
RECURSIVE WeightedSum(_, _, _, _)
WeightedSum(buffer, count, head, i) ==
    IF i >= count THEN 0
    ELSE buffer[((head + count - 1 - i) % count) + 1] * (count - i)
         + WeightedSum(buffer, count, head, i + 1)

calculate_weighted_average(buffer, count, head) ==
    IF count = 0 THEN 0
    ELSE (WeightedSum(buffer, count, head, 0) \div ((count * (count + 1)) \div 2))
         % 65536

\* BufferBranch that advances head without wrapping it.
BufferBranch_HeadNotWrapped(f, distance_mm, range_status) ==
    LET f1 == [f EXCEPT !.buffer[(f.head % f.config.window_size) + 1] = distance_mm,
                        !.status_buffer[(f.head % f.config.window_size) + 1] = range_status,
                        !.head = f.head + 1,
                        !.count = IF f.count < f.config.window_size
                                  THEN f.count + 1 ELSE f.count]
        t  == f1.config.filter_type
    IN  [filter |-> f1,
         done |-> TRUE,
         filtered_value |->
            IF f1.count < 3 THEN distance_mm
            ELSE IF t = "MEDIAN" THEN calculate_median(f1.buffer, f1.count)
            ELSE IF t = "AVERAGE" THEN calculate_average(f1.buffer, f1.count)
            ELSE IF t = "WEIGHTED_AVG"
                 THEN calculate_weighted_average(f1.buffer, f1.count, f1.head)
            ELSE distance_mm]

\* The buffer branch for a valid sample: the sample is stored in the ring
\* and the selected filter is applied.
BufferBranch(f, distance_mm, range_status) ==
    LET f1 == [f EXCEPT !.buffer[f.head + 1] = distance_mm,
                        !.status_buffer[f.head + 1] = range_status,
                        !.head = (f.head + 1) % f.config.window_size,
                        !.count = IF f.count < f.config.window_size
                                  THEN f.count + 1 ELSE f.count]
        t  == f1.config.filter_type
    IN  [filter |-> f1,
         done |-> TRUE,
         filtered_value |->
            IF f1.count < 3 THEN distance_mm
            ELSE IF t = "MEDIAN" THEN calculate_median(f1.buffer, f1.count)
            ELSE IF t = "AVERAGE" THEN calculate_average(f1.buffer, f1.count)
            ELSE IF t = "WEIGHTED_AVG"
                 THEN calculate_weighted_average(f1.buffer, f1.count, f1.head)
            ELSE distance_mm]

\* ApplyFilter that refuses an invalid sample for every filter type.
ApplyFilter_RefusesInvalid(f, distance_mm, range_status, valid, ub) ==
    IF ~valid THEN [filter |-> f, done |-> FALSE, filtered_value |-> 0]
    ELSE IF f.config.filter_type = "KALMAN"
    THEN KalmanBranch(f, distance_mm, valid, ub)
    ELSE BufferBranch(f, distance_mm, range_status)

\* ApplyFilter whose buffer-based filters store a rejected sample before
\* they refuse it.
ApplyFilter_StoresInvalid(f, distance_mm, range_status, valid, ub) ==
    IF f.config.filter_type = "KALMAN"
    THEN KalmanBranch(f, distance_mm, valid, ub)
    ELSE IF ~valid
    THEN [filter |-> BufferBranch(f, distance_mm, range_status).filter,
          done |-> FALSE, filtered_value |-> 0]
    ELSE BufferBranch(f, distance_mm, range_status)

\* "Apply selected filter".
ApplyFilter(f, distance_mm, range_status, valid, ub) ==
    IF f.config.filter_type = "KALMAN"
    THEN KalmanBranch(f, distance_mm, valid, ub)
    ELSE IF ~valid THEN [filter |-> f, done |-> FALSE, filtered_value |-> 0]
    ELSE BufferBranch(f, distance_mm, range_status)

\* Finish with a counter that is not capped: a uint8_t increment.
Finish_Wraps(f, filtered_value, valid) ==
    [f EXCEPT !.last_output = filtered_value,
              !.samples_since_reset = IF valid THEN (@ + 1) % 256 ELSE @]

\* The end of the call once filtered_value is known: last_output, and
\* samples_since_reset for a fully valid sample, capped at 255.
Finish(f, filtered_value, valid) ==
    [f EXCEPT !.last_output = filtered_value,
              !.samples_since_reset =
                  IF valid /\ @ < 255 THEN @ + 1 ELSE @]

\* The end of a call whose gates yielded sc and rc and whose filter branch
\* yielded ap: the filter, the return value, whether *output_mm was written
\* and with what, and the call's local flags.
UpdateResult(sc, rc, ap) ==
    [filter |-> IF ap.done
                THEN Finish(ap.filter, ap.filtered_value,
                            sc.status_valid /\ rc.rate_valid)
                ELSE ap.filter,
     ret |-> ap.done,
     wrote |-> ap.done,
     out |-> ap.filtered_value,
     status_valid |-> sc.status_valid,
     rate_valid |-> rc.rate_valid,
     reset |-> sc.reset \/ rc.reset]

\* The call after both gates: the rejection counter is cleared for a fully
\* valid sample and the selected filter is applied.
AfterGates(sc, rc, distance_mm, range_status, ub) ==
    UpdateResult(sc, rc,
        ApplyFilter(ClearRejections(rc.filter,
                                    sc.status_valid /\ rc.rate_valid),
                    distance_mm, range_status,
                    sc.status_valid /\ rc.rate_valid, ub))

\* The call after the status gate, which yielded sc: the rate gate acts on
\* the filter the status gate left.
AfterStatusCheck(sc, distance_mm, range_status, ub) ==
    AfterGates(sc, RateCheck(sc.filter, distance_mm), distance_mm,
               range_status, ub)

\* VL53LX_FilterUpdate(filter, distance_mm, range_status, output_mm) on a
\* non-NULL filter and a non-NULL output_mm.  Yields the filter after the
\* call, the return value, whether *output_mm was written and with what, and
\* the call's local flags.
VL53LX_FilterUpdate(f, distance_mm, range_status, ub) ==
    IF ~f.initialized
    THEN [filter |-> f, ret |-> FALSE, wrote |-> FALSE, out |-> 0,
          status_valid |-> TRUE, rate_valid |-> TRUE, reset |-> FALSE]
    ELSE AfterStatusCheck(StatusCheck(f, range_status, ub),
                          distance_mm, range_status, ub)

\* ------------------------------------------------------------------------
\* The calls as actions
\* ------------------------------------------------------------------------

\* Accepted samples explored after a reset before the run is cut off.
MaxSamples == 4

NoCall ==
    [op |-> "Init", distance_mm |-> 0, range_status |-> 0, ub |-> FALSE,
     prev_output |-> 0, status_valid |-> TRUE, rate_valid |-> TRUE,
     ret |-> TRUE, wrote |-> FALSE, reset |-> FALSE]

\* The caller's side of a call that yielded r: the filter and the output
\* variable after it, and the record of the call.
Returned(distance_mm, range_status, ub, r) ==
    /\ filter' = r.filter
    /\ output_mm' = IF r.wrote THEN r.out ELSE output_mm
    /\ call' = [op |-> "Update", distance_mm |-> distance_mm,
                range_status |-> range_status, ub |-> ub,
                prev_output |-> filter.last_output,
                status_valid |-> r.status_valid,
                rate_valid |-> r.rate_valid,
                ret |-> r.ret, wrote |-> r.wrote, reset |-> r.reset]
    /\ UNCHANGED <<result, device, tof>>

\* bool ok = VL53LX_FilterUpdate(&filter, distance_mm, range_status, &output_mm)
UpdateCall(distance_mm, range_status, ub) ==
    /\ filter.samples_since_reset < MaxSamples
    /\ Returned(distance_mm, range_status, ub,
                VL53LX_FilterUpdate(filter, distance_mm, range_status, ub))

FilterUpdate(distance_mm, range_status, ub) ==
    /\ UpdateCall(distance_mm, range_status, ub)
    /\ UNCHANGED trace

\* VL53LX_FilterReset(&filter)
FilterReset ==
    /\ filter' = VL53LX_FilterReset(filter)
    /\ call' = [NoCall EXCEPT !.op = "Reset"]
    /\ UNCHANGED <<output_mm, trace, result, device, tof>>

\* The outcomes of the undefined shift, where the shift is undefined.
ShiftOutcomes(range_status) ==
    IF range_status >= 32 THEN BOOLEAN ELSE {FALSE}

InitWith(configs) ==
    /\ \E config \in configs : filter = VL53LX_FilterInitWithConfig(config)
    /\ output_mm = 0
    /\ call = NoCall
    /\ trace = <<>>
    /\ result = NoResult
    /\ NoBoard
    /\ device = NoData

\* --- Kalman filters under every gate configuration -----------------------

KalmanConfig(status_check, rate_limit, max_change, Q) ==
    [VL53LX_FilterGetDefaultConfig EXCEPT
        !.filter_type = "KALMAN",
        !.enable_status_check = status_check,
        !.enable_rate_limit = rate_limit,
        !.max_change_rate_mm = max_change,
        !.kalman_process_noise = Q]

\* A limit whose triple does not fit 16 bits.
WideLimit == 30000

KalmanConfigs ==
    { KalmanConfig(TRUE, TRUE, DEFAULT_MAX_CHANGE_RATE_MM, F32_1_0),
      KalmanConfig(TRUE, TRUE, DEFAULT_MAX_CHANGE_RATE_MM, F32_0_01),
      KalmanConfig(TRUE, FALSE, DEFAULT_MAX_CHANGE_RATE_MM, F32_1_0),
      KalmanConfig(FALSE, TRUE, DEFAULT_MAX_CHANGE_RATE_MM, F32_1_0),
      KalmanConfig(FALSE, FALSE, DEFAULT_MAX_CHANGE_RATE_MM, F32_1_0),
      KalmanConfig(TRUE, TRUE, WideLimit, F32_1_0) }

\* First samples, and samples placed at the rate limits of the state: at
\* the configured limit and one beyond it, at three times the limit and one
\* beyond that, on either side of last_output.  While a run of rejections is
\* in progress, and when the rate limit is disabled, only two are drawn.
Distances(f) ==
    IF ~has_previous_output(f) THEN {0, 1000, 65535}
    ELSE LET lo  == f.last_output
             lim == f.config.max_change_rate_mm
         IN  (IF f.rejected_count > 0 \/ ~f.config.enable_rate_limit
              THEN { lo + lim, lo - lim - 1 }
              ELSE { lo + lim, lo + lim + 1, lo + 3 * lim, lo + 3 * lim + 1,
                     lo - lim - 1, lo - 3 * lim - 1 }) \cap (0..65535)

Statuses == {0, 4}

Init == InitWith(KalmanConfigs)

Next ==
    \/ \E distance_mm \in Distances(filter), range_status \in Statuses :
          FilterUpdate(distance_mm, range_status, FALSE)
    \/ FilterReset

Spec == Init /\ [][Next]_vars

\* --- The status gate under every mask -------------------------------------

\* uint8_t valid_status_mask: the largest mask.
UINT8_MAX == 255

\* The largest range_status drawn: one beyond the statuses whose shift is
\* defined.
MaxStatus == 32

\* Accepted samples after which a run of the status gate is cut off.
StatusSamples == 1

StatusConfigs ==
    { [KalmanConfig(TRUE, FALSE, DEFAULT_MAX_CHANGE_RATE_MM, F32_1_0)
         EXCEPT !.valid_status_mask = mask] : mask \in 0..UINT8_MAX }
    \cup
    { KalmanConfig(FALSE, FALSE, DEFAULT_MAX_CHANGE_RATE_MM, F32_1_0) }

StatusUpdate(range_status, ub) ==
    /\ filter.samples_since_reset < StatusSamples
    /\ FilterUpdate(1000, range_status, ub)

InitStatus == InitWith(StatusConfigs)

NextStatus ==
    \E range_status \in 0..MaxStatus :
        \E ub \in ShiftOutcomes(range_status) :
            StatusUpdate(range_status, ub)

SpecStatus == InitStatus /\ [][NextStatus]_vars

\* --- Estimates next to a half --------------------------------------------

\* A process noise under which the estimate, after the samples 0, 0, 1,
\* is the binary32 value just below 0.5.
RoundingConfig ==
    KalmanConfig(TRUE, TRUE, DEFAULT_MAX_CHANGE_RATE_MM, F32_1_65685368)

InitRounding == InitWith({RoundingConfig})

NextRounding ==
    \E distance_mm \in {0, 1}, range_status \in Statuses :
        FilterUpdate(distance_mm, range_status, FALSE)

SpecRounding == InitRounding /\ [][NextRounding]_vars

\* --- A scripted run -------------------------------------------------------

\* Calls made in a scripted run.
ScenarioLen == 4

\* The configuration the scripted run is described for: a Kalman filter with
\* Q = 1.0, R = 4.0, max_change_rate_mm = 500 and mask 0x01.
ScenarioConfig ==
    KalmanConfig(TRUE, TRUE, DEFAULT_MAX_CHANGE_RATE_MM, F32_1_0)

\* That configuration, and the one VL53LX_FilterInit installs.
ScenarioConfigs == {ScenarioConfig, VL53LX_FilterGetDefaultConfig}

ScenarioDistances == {1000, 1005, 1600, 1008}

\* One call of the run, recorded in trace with the output variable after it.
ScenarioUpdate(distance_mm) ==
    /\ Len(trace) < ScenarioLen
    /\ UpdateCall(distance_mm, 0, FALSE)
    /\ trace' = Append(trace, [call |-> call', output_mm |-> output_mm'])

InitScenario == InitWith(ScenarioConfigs)

NextScenario == \E distance_mm \in ScenarioDistances : ScenarioUpdate(distance_mm)

SpecScenario == InitScenario /\ [][NextScenario]_vars

\* --- The filter VL53LX_FilterInit sets up ----------------------------------

\* The filter a successful VL53LX_FilterInit(filter) leaves.
VL53LX_FilterInit == VL53LX_FilterInitWithConfig(VL53LX_FilterGetDefaultConfig)

DefaultDistances == {1000, 1005, 1600}

InitDefault ==
    /\ filter = VL53LX_FilterInit
    /\ output_mm = 0
    /\ call = NoCall
    /\ trace = <<>>
    /\ result = NoResult
    /\ NoBoard
    /\ device = NoData

NextDefault ==
    \/ \E distance_mm \in DefaultDistances, range_status \in Statuses :
          FilterUpdate(distance_mm, range_status, FALSE)
    \/ FilterReset

SpecDefault == InitDefault /\ [][NextDefault]_vars

\* --- The covariance under small and large noise ---------------------------

\* Kalman filters with Q = 0, Q = 1.0 and Q = 2e38f (a finite float whose
\* double is not one), each with R = 4.0 and with R = 2^-30, under which
\* p_pred + R rounds to p_pred.
CovarianceConfigs ==
    { [KalmanConfig(TRUE, TRUE, DEFAULT_MAX_CHANGE_RATE_MM, Q)
         EXCEPT !.kalman_measurement_noise = R] :
        Q \in {F32Zero, F32_1_0, F32_2e38},
        R \in {F32_4_0, [m |-> 8388608, e |-> -53]} }

\* The outcomes of the conversion of the estimate to uint16_t: the build's
\* choice where the estimate is, or is about to become, NaN.
ConversionOutcomes(f) ==
    IF \/ IsNaN(f.kalman_x)
       \/ IsInf(F32Add(f.kalman_p, f.config.kalman_process_noise))
    THEN BOOLEAN ELSE {FALSE}

InitCovariance == InitWith(CovarianceConfigs)

NextCovariance ==
    \/ \E distance_mm \in {1000, 1200}, range_status \in Statuses :
          \E ub \in ConversionOutcomes(filter) :
              FilterUpdate(distance_mm, range_status, ub)
    \/ FilterReset

SpecCovariance == InitCovariance /\ [][NextCovariance]_vars

\* --- A long run of accepted samples ----------------------------------------

\* Accepted samples a run has had when it is taken up.
SaturationStart == 253

\* Calls made after that.
SaturationLen == 6

\* The filter after n more calls VL53LX_FilterUpdate(&filter, 1000, 0, &out).
RECURSIVE Feed(_, _)
Feed(f, n) ==
    IF n = 0 THEN f
    ELSE IF n = 1 THEN VL53LX_FilterUpdate(f, 1000, 0, FALSE).filter
    ELSE LET h == Feed(f, n \div 2)
         IN  IF h.initialized THEN Feed(h, n - n \div 2) ELSE h

\* One more call of the run, recorded in trace.
SaturationUpdate(distance_mm, range_status) ==
    /\ Len(trace) < SaturationLen
    /\ Returned(distance_mm, range_status, FALSE,
                VL53LX_FilterUpdate(filter, distance_mm, range_status, FALSE))
    /\ trace' = Append(trace, [call |-> call', output_mm |-> output_mm'])

\* VL53LX_FilterReset(&filter) in the run: the run starts again.
SaturationReset ==
    /\ Len(trace) > 0
    /\ filter' = VL53LX_FilterReset(filter)
    /\ call' = [NoCall EXCEPT !.op = "Reset"]
    /\ trace' = <<>>
    /\ UNCHANGED <<output_mm, result, device, tof>>

InitSaturation ==
    /\ \E config \in ScenarioConfigs :
          filter = Feed(VL53LX_FilterInitWithConfig(config), SaturationStart)
    /\ output_mm = 1000
    /\ call = NoCall
    /\ trace = <<>>
    /\ result = NoResult
    /\ NoBoard
    /\ device = NoData

NextSaturation ==
    \/ \E distance_mm \in {1000, 3000}, range_status \in Statuses :
          SaturationUpdate(distance_mm, range_status)
    \/ SaturationReset

SpecSaturation == InitSaturation /\ [][NextSaturation]_vars

\* ------------------------------------------------------------------------
\* vl53lx_platform.c: vl53l3cx_get_ranging_data
\* ------------------------------------------------------------------------

\* (float)n for an int32_t n.
F32FromInt(n) == F32Round(Sgn(n), Abs(n), 0, FALSE)

F32_0_5 == [m |-> 8388608, e |-> -24]
F32_15_0 == [m |-> 15728640, e |-> -20]
F32_12_5 == [m |-> 13107200, e |-> -20]

Bins == 0..(VL53L3CX_HISTOGRAM_BINS - 1)

\* The three bytes the device sends for a 24-bit count, high byte first.
BinBytes(count) == <<count \div 65536, (count \div 256) % 256, count % 256>>

\* The 77 bytes read from RESULT__INTERRUPT_STATUS, as a function of the
\* byte offset: the header with the status byte and the stream count, then
\* the bins.
HistogramBuffer(status_byte, stream_count, counts) ==
    [offset \in 0..(VL53L3CX_HISTOGRAM_HEADER_SIZE
                     + 3 * VL53L3CX_HISTOGRAM_BINS - 1) |->
        IF offset = 1 THEN status_byte
        ELSE IF offset = 3 THEN stream_count
        ELSE IF offset < VL53L3CX_HISTOGRAM_HEADER_SIZE THEN 0
        ELSE BinBytes(counts[(offset - VL53L3CX_HISTOGRAM_HEADER_SIZE) \div 3])
                     [((offset - VL53L3CX_HISTOGRAM_HEADER_SIZE) % 3) + 1]]

\* "Extract histogram bins (24 bins x 3 bytes each)".
bin_data(histogram_buffer) ==
    [bin \in Bins |->
        histogram_buffer[VL53L3CX_HISTOGRAM_HEADER_SIZE + bin * 3] * 65536
        + histogram_buffer[VL53L3CX_HISTOGRAM_HEADER_SIZE + bin * 3 + 1] * 256
        + histogram_buffer[VL53L3CX_HISTOGRAM_HEADER_SIZE + bin * 3 + 2]]

\* ambient_estimate taken over the first five bins only.
ambient_estimate_FiveBins(bins) ==
    (bins[0] + bins[1] + bins[2] + bins[3] + bins[4]) \div 6

\* "Calculate ambient estimate (average of first 6 bins)".
ambient_estimate(bins) ==
    (bins[0] + bins[1] + bins[2] + bins[3] + bins[4] + bins[5]) \div 6

\* "Ambient removal".
corrected_bins(bins, ambient) ==
    [i \in Bins |-> IF bins[i] > ambient THEN bins[i] - ambient ELSE 0]

\* PeakScan in which a later bin of the same count replaces the peak.
RECURSIVE PeakScan_LastWins(_, _, _, _)
PeakScan_LastWins(corrected, i, max_count, peak_bin) ==
    IF i >= 18 THEN [max_count |-> max_count, peak_bin |-> peak_bin]
    ELSE IF corrected[i] >= max_count
         THEN PeakScan_LastWins(corrected, i + 1, corrected[i], i)
         ELSE PeakScan_LastWins(corrected, i + 1, max_count, peak_bin)

\* PeakScan that goes on to the last bin of the histogram.
RECURSIVE PeakScan_ToLastBin(_, _, _, _)
PeakScan_ToLastBin(corrected, i, max_count, peak_bin) ==
    IF i >= VL53L3CX_HISTOGRAM_BINS
    THEN [max_count |-> max_count, peak_bin |-> peak_bin]
    ELSE IF corrected[i] > max_count
         THEN PeakScan_ToLastBin(corrected, i + 1, corrected[i], i)
         ELSE PeakScan_ToLastBin(corrected, i + 1, max_count, peak_bin)

\* "Peak detection (search bins 6-17)": the loop from bin i on.
RECURSIVE PeakScan(_, _, _, _)
PeakScan(corrected, i, max_count, peak_bin) ==
    IF i >= 18 THEN [max_count |-> max_count, peak_bin |-> peak_bin]
    ELSE IF corrected[i] > max_count
         THEN PeakScan(corrected, i + 1, corrected[i], i)
         ELSE PeakScan(corrected, i + 1, max_count, peak_bin)

\* sub_bin_offset that moves the peak half a bin up when the denominator
\* is zero.
sub_bin_offset_HalfOnZero(a_minus_c, denominator) ==
    IF denominator # 0
    THEN F32Div(F32Mul(F32_0_5, F32FromInt(a_minus_c)), F32FromInt(denominator))
    ELSE F32_0_5

\* sub_bin_offset, from a - c and the denominator.
sub_bin_offset(a_minus_c, denominator) ==
    IF denominator # 0
    THEN F32Div(F32Mul(F32_0_5, F32FromInt(a_minus_c)), F32FromInt(denominator))
    ELSE F32Zero

\* bin_width_mm with the two widths exchanged.
bin_width_mm_Swapped(peak_bin) == IF peak_bin < 12 THEN F32_12_5 ELSE F32_15_0

\* "Bin width depends on VCSEL period".
bin_width_mm(peak_bin) == IF peak_bin < 12 THEN F32_15_0 ELSE F32_12_5

\* accurate_bin * bin_width_mm.
InterpolatedDistance(peak_bin, offset) ==
    F32Mul(F32Add(F32FromInt(peak_bin), offset), bin_width_mm(peak_bin))

\* What the build makes of (uint16_t)distance_mm where the conversion is
\* undefined: the low 16 bits of the int conversion, 0, or 65535.
ConversionChoices == {"wrap", "zero", "max"}

\* (uint16_t)distance_mm.
DistanceToU16(distance, ub) ==
    IF U16Defined(distance) THEN F32Trunc(distance)
    ELSE IF ub = "wrap" THEN F32Trunc(distance) % 65536
    ELSE IF ub = "zero" THEN 0
    ELSE 65535

\* The end of the read-out: the result, and the locals of the call.
RangingResult(header, bins, ambient, corrected, pk, found, abc, offset, distance, ub) ==
    [result |-> [distance_mm      |-> DistanceToU16(distance, ub),
                 range_status     |-> header.range_status,
                 stream_count     |-> header.stream_count,
                 bin_data         |-> bins,
                 ambient_estimate |-> ambient,
                 peak_bin         |-> pk.peak_bin],
     call   |-> [op             |-> "GetRangingData",
                 ok             |-> TRUE,
                 ub             |-> IF U16Defined(distance) THEN "none" ELSE ub,
                 corrected_bins |-> corrected,
                 max_count      |-> pk.max_count,
                 found          |-> found,
                 a              |-> abc[1],
                 b              |-> abc[2],
                 c              |-> abc[3],
                 denominator    |-> abc[1] - 2 * abc[2] + abc[3],
                 sub_bin_offset |-> offset,
                 distance       |-> distance]]

\* "Sub-bin interpolation using parabolic fit", with a, b, c in abc.
Interpolated(header, bins, ambient, corrected, pk, abc, offset, ub) ==
    RangingResult(header, bins, ambient, corrected, pk, TRUE, abc, offset,
                  InterpolatedDistance(pk.peak_bin, offset), ub)

\* "Distance calculation with sub-bin interpolation".
AfterPeak(header, bins, ambient, corrected, pk, ub) ==
    IF pk.max_count > 0 /\ pk.peak_bin > 0 /\ pk.peak_bin < 23
    THEN Interpolated(header, bins, ambient, corrected, pk,
                      << corrected[pk.peak_bin - 1], corrected[pk.peak_bin],
                         corrected[pk.peak_bin + 1] >>,
                      sub_bin_offset(corrected[pk.peak_bin - 1]
                                       - corrected[pk.peak_bin + 1],
                                     corrected[pk.peak_bin - 1]
                                       - 2 * corrected[pk.peak_bin]
                                       + corrected[pk.peak_bin + 1]),
                      ub)
    ELSE RangingResult(header, bins, ambient, corrected, pk, FALSE,
                       <<0, 0, 0>>, F32Zero, F32Zero, ub)

AfterAmbientRemoval(header, bins, ambient, corrected, ub) ==
    AfterPeak(header, bins, ambient, corrected, PeakScan(corrected, 6, 0, 0), ub)

AfterAmbient(header, bins, ambient, ub) ==
    AfterAmbientRemoval(header, bins, ambient, corrected_bins(bins, ambient), ub)

\* The read-out of the bins, given the header fields.
ExtractBins(header, bins, ub) ==
    AfterAmbient(header, bins, ambient_estimate(bins), ub)

\* vl53l3cx_get_ranging_data(dev, result) on non-NULL arguments once the
\* register read has delivered histogram_buffer.
vl53l3cx_get_ranging_data(histogram_buffer, ub) ==
    ExtractBins([range_status |-> histogram_buffer[1] % 32,
                 stream_count |-> histogram_buffer[3]],
                bin_data(histogram_buffer), ub)

\* --- Read-outs of a family of histograms ------------------------------------

\* The largest background count drawn.
MaxBackground == 7

\* The largest 24-bit count.
MaxCount == 16777215

\* Counts drawn for the three bins around a position.
Counts == {0, 1, 2, 3, 35000, 35001, 60001}

\* The counts of the bins p-1, p, p+1: every combination of Counts, a
\* combination whose float product is the integer its exact value lies just
\* below, one whose float product lies just below the integer its exact
\* value lies just above, and full-scale counts.
Triples ==
    (Counts \X Counts \X Counts)
      \cup { <<0, 103841, 50347>>, <<208581, 521128, 11183>>,
             <<0, MaxCount, 0>>,
             <<MaxCount, MaxCount, MaxCount>>, <<MaxCount, MaxCount - 1, 0>> }

\* Positions of the middle bin: the window edges 6 and 17, the bins on
\* either side of the change of bin width, and interior bins.
Positions == {6, 7, 11, 12, 14, 17}

\* A histogram with background g, the counts t around position p and, with
\* echo, the middle count again three bins further on (two bins before at
\* the upper edge).
Histogram(g, p, t, echo) ==
    [i \in Bins |->
        IF i = p - 1 THEN t[1]
        ELSE IF i = p THEN t[2]
        ELSE IF i = p + 1 THEN t[3]
        ELSE IF echo /\ i = (IF p < 17 THEN p + 3 ELSE p - 3) THEN t[2]
        ELSE g]

Histograms ==
    { Histogram(g, p, t, echo) :
        g \in {0, MaxBackground}, p \in Positions, t \in Triples,
        echo \in BOOLEAN }

\* The status bytes drawn: range status 0, and range status 9 under set
\* upper bits.
StatusBytes == {0, 233}

\* The caller's side of a read-out that yielded r; the interrupt is
\* cleared at its end, which releases the sensor's result registers.
RangingReturned(r) ==
    /\ result' = r.result
    /\ call' = r.call
    /\ device' = NoData
    /\ UNCHANGED <<filter, output_mm, trace, tof>>

\* esp_err_t ret = vl53l3cx_get_ranging_data(&dev, &result) with a
\* measurement waiting and the register read succeeding.
GetRangingData(ub) ==
    /\ device.ready
    /\ RangingReturned(vl53l3cx_get_ranging_data(
           HistogramBuffer(device.status_byte, 1, device.counts), ub))

\* The same call with the register read failing: the call returns the error
\* and neither result nor the sensor is touched.
GetRangingDataFails ==
    /\ device.ready
    /\ call' = [op |-> "GetRangingData", ok |-> FALSE]
    /\ UNCHANGED <<filter, output_mm, trace, result, device, tof>>

\* A measurement is waiting in the sensor.
InitHistogram ==
    /\ filter = VL53LX_FilterInit
    /\ output_mm = 0
    /\ call = NoCall
    /\ trace = <<>>
    /\ result = NoResult
    /\ NoBoard
    /\ \E status_byte \in StatusBytes, counts \in Histograms :
          device = [ready |-> TRUE, status_byte |-> status_byte,
                    counts |-> counts]

NextHistogram ==
    \/ \E ub \in ConversionChoices : GetRangingData(ub)
    \/ GetRangingDataFails

SpecHistogram == InitHistogram /\ [][NextHistogram]_vars

\* --- Runs of non-accepted calls ------------------------------------------

\* Longest run of non-accepted calls followed.
MaxRun == 6

\* The Kalman filters with Q = 1.0 under every gate configuration.
RunConfigs == { c \in KalmanConfigs : c.kalman_process_noise = F32_1_0 }

\* The record of the call just made, as the run keeps it.
RunEntry(c) ==
    [ret |-> c.ret, reset |-> c.reset,
     status_valid |-> c.status_valid, rate_valid |-> c.rate_valid]

\* The samples of a run: a first sample; then one that repeats last_output
\* and two beyond the rate limit, one of them beyond three times the limit.
RunDistances(f) ==
    IF ~has_previous_output(f) THEN {1000}
    ELSE { f.last_output,
           f.last_output + f.config.max_change_rate_mm + 1,
           f.last_output + 3 * f.config.max_change_rate_mm + 1 } \cap (0..65535)

\* The sample of the recorded call passed both gates.
Accepted(e) == e.status_valid /\ e.rate_valid

\* The calls trace holds when the next call is made: none once the last one
\* was accepted.
Pending ==
    IF trace # <<>> /\ Accepted(trace[Len(trace)]) THEN <<>> ELSE trace

\* One call; trace holds the calls made since the last fully accepted call
\* or explicit reset, up to the call that is accepted.
RunUpdate(distance_mm, range_status) ==
    /\ Len(Pending) < MaxRun
    /\ UpdateCall(distance_mm, range_status, FALSE)
    /\ trace' = Append(Pending, RunEntry(call'))

\* VL53LX_FilterReset(&filter): the run is interrupted.
RunReset ==
    /\ filter' = VL53LX_FilterReset(filter)
    /\ call' = [NoCall EXCEPT !.op = "Reset"]
    /\ trace' = <<>>
    /\ UNCHANGED <<output_mm, result, device, tof>>

InitRuns == InitWith(RunConfigs)

NextRuns ==
    \/ \E distance_mm \in RunDistances(filter), range_status \in Statuses :
          RunUpdate(distance_mm, range_status)
    \/ RunReset

SpecRuns == InitRuns /\ [][NextRuns]_vars

\* --- Filters of every type under every gate configuration ----------------

\* vl53lx_filter_type_t
FilterTypes == {"MEDIAN", "AVERAGE", "WEIGHTED_AVG", "KALMAN"}

\* Every filter type with the smallest window and the default limit, the
\* gates on and off.
TypeConfigs ==
    { [KalmanConfig(status_check, rate_limit, DEFAULT_MAX_CHANGE_RATE_MM, F32_1_0)
         EXCEPT !.filter_type = type, !.window_size = 3] :
        type \in FilterTypes, status_check \in BOOLEAN, rate_limit \in BOOLEAN }

InitTypes == InitWith(TypeConfigs)

NextTypes ==
    \/ \E distance_mm \in {1000, 3000}, range_status \in Statuses :
          FilterUpdate(distance_mm, range_status, FALSE)
    \/ FilterReset

SpecTypes == InitTypes /\ [][NextTypes]_vars

\* --- The samples an estimate is made of ----------------------------------

\* The accepted samples trace holds once the call that yielded r is made:
\* none after an auto-reset, the sample alone after a bootstrap, one more
\* after an observation update.
AcceptedSamples(f, distance_mm, r) ==
    IF r.reset THEN <<>>
    ELSE IF ~(r.status_valid /\ r.rate_valid) THEN trace
    ELSE IF f.kalman_initialized THEN Append(trace, distance_mm)
    ELSE <<distance_mm>>

\* One call; trace holds the samples accepted since the bootstrap.
EnvelopeUpdate(distance_mm, range_status, ub) ==
    /\ UpdateCall(distance_mm, range_status, ub)
    /\ trace' = AcceptedSamples(filter, distance_mm,
                    VL53LX_FilterUpdate(filter, distance_mm, range_status, ub))

\* VL53LX_FilterReset(&filter): the estimate and its samples are dropped.
EnvelopeReset ==
    /\ filter' = VL53LX_FilterReset(filter)
    /\ call' = [NoCall EXCEPT !.op = "Reset"]
    /\ trace' = <<>>
    /\ UNCHANGED <<output_mm, result, device, tof>>

InitEnvelope == InitWith(CovarianceConfigs)

NextEnvelope ==
    \/ \E distance_mm \in {1000, 1200}, range_status \in Statuses :
          \E ub \in ConversionOutcomes(filter) :
              EnvelopeUpdate(distance_mm, range_status, ub)
    \/ EnvelopeReset

SpecEnvelope == InitEnvelope /\ [][NextEnvelope]_vars

\* --- A constant distance -------------------------------------------------

\* Calls made in a run.
ConvergeLen == 24

\* Kalman filters with (Q, R) = (1.0, 4.0), (1.0, 1.0) and (0, 4.0).
ConvergeConfigs ==
    { [KalmanConfig(TRUE, TRUE, DEFAULT_MAX_CHANGE_RATE_MM, QR[1])
         EXCEPT !.kalman_measurement_noise = QR[2]] :
        QR \in { <<F32_1_0, F32_4_0>>, <<F32_1_0, F32_1_0>>,
                 <<F32Zero, F32_4_0>> } }

\* One more call of the run, with status 0; from the third call on the
\* distance is the one of the call before.  trace holds the distances.
ConvergeUpdate(distance_mm) ==
    /\ Len(trace) < ConvergeLen
    /\ Len(trace) >= 2 => distance_mm = trace[Len(trace)]
    /\ Returned(distance_mm, 0, FALSE,
                VL53LX_FilterUpdate(filter, distance_mm, 0, FALSE))
    /\ trace' = Append(trace, distance_mm)

InitConverge == InitWith(ConvergeConfigs)

NextConverge == \E distance_mm \in {0, 1000, 1400} : ConvergeUpdate(distance_mm)

SpecConverge == InitConverge /\ [][NextConverge]_vars

\* --- The life of a filter object -----------------------------------------

\* VL53LX_FilterDeinit: the filter it leaves.  The freed buffers are NULL.
VL53LX_FilterDeinit(f) ==
    IF ~f.initialized THEN f
    ELSE [f EXCEPT !.buffer = <<>>,
                   !.status_buffer = <<>>,
                   !.initialized = FALSE]

\* "vl53lx_filter_t filter;" before any call: no function has written the
\* object, so its bytes are indeterminate.  The contents drawn here are the
\* image of an earlier Kalman filter, with the byte of initialized 0 or not.
IndeterminateFilters ==
    { [VL53LX_FilterInitWithConfig(ScenarioConfig) EXCEPT !.initialized = b] :
        b \in BOOLEAN }

\* Configurations handed to VL53LX_FilterInitWithConfig: one it accepts and
\* two whose window_size it refuses.
LifecycleConfigs ==
    { [ScenarioConfig EXCEPT !.window_size = w] : w \in {2, 5, 16} }

\* The filter VL53LX_FilterInitWithConfig(&filter, config) leaves in place
\* of f, with malloc succeeding or not.  The two early returns write no
\* field but config.
InitWithConfigOutcome(f, config, malloc_ok) ==
    IF config.window_size < 3 \/ config.window_size > 15 THEN f
    ELSE IF ~malloc_ok THEN [f EXCEPT !.config = config]
    ELSE VL53LX_FilterInitWithConfig(config)

\* ok = VL53LX_FilterInitWithConfig(&filter, &config) on an object that holds
\* no live filter.  trace is empty until a call succeeds, and again after
\* VL53LX_FilterDeinit.
LifecycleInit(config, malloc_ok) ==
    /\ trace = <<>>
    /\ filter' = InitWithConfigOutcome(filter, config, malloc_ok)
    /\ call' = [NoCall EXCEPT
                   !.op = "Init",
                   !.ret = malloc_ok /\ config.window_size \in 3..15]
    /\ trace' = IF call'.ret THEN <<"live">> ELSE <<>>
    /\ UNCHANGED <<output_mm, result, device, tof>>

\* VL53LX_FilterDeinit(&filter)
LifecycleDeinit ==
    /\ filter' = VL53LX_FilterDeinit(filter)
    /\ call' = [NoCall EXCEPT !.op = "Deinit"]
    /\ trace' = <<>>
    /\ UNCHANGED <<output_mm, result, device, tof>>

\* VL53LX_FilterUpdate(NULL, ...) and VL53LX_FilterUpdate(&filter, ..., NULL):
\* the first test of the function returns false.
LifecycleUpdateNull ==
    /\ call' = [NoCall EXCEPT !.op = "UpdateNull", !.ret = FALSE]
    /\ UNCHANGED <<filter, output_mm, trace, result, device, tof>>

InitLifecycle ==
    /\ filter \in IndeterminateFilters
    /\ output_mm = 0
    /\ call = NoCall
    /\ trace = <<>>
    /\ result = NoResult
    /\ NoBoard
    /\ device = NoData

NextLifecycle ==
    \/ \E config \in LifecycleConfigs, malloc_ok \in BOOLEAN :
          LifecycleInit(config, malloc_ok)
    \/ \E distance_mm \in {1000}, range_status \in Statuses :
          FilterUpdate(distance_mm, range_status, FALSE)
    \/ LifecycleUpdateNull
    \/ FilterReset
    \/ LifecycleDeinit

SpecLifecycle == InitLifecycle /\ [][NextLifecycle]_vars

\* ------------------------------------------------------------------------
\* stampfly_tof.c: bringing up the two sensors
\* ------------------------------------------------------------------------

\* The variables of the single-sensor driver and of the filter.
ranging == <<filter, output_mm, call, trace, result, device>>

\* gpio_set_level on the XSHUT pin of sensor s: a sensor held low is in
\* hardware standby and off the bus, and one released from standby boots
\* at the default address.
SetLevel(b, s, level) ==
    [b EXCEPT !.xshut[s] = level,
              !.addr[s] = IF level = 0 THEN 0
                          ELSE IF b.xshut[s] = 0 THEN VL53L3CX_DEFAULT_I2C_ADDR
                          ELSE b.addr[s]]

\* stampfly_tof_set_xshut that treats STAMPFLY_TOF_SENSOR_BOTH as the front
\* sensor alone.
stampfly_tof_set_xshut_FrontOnly(b, sensor, level, front_ok, bottom_ok) ==
    IF sensor \in {"front", "both"}
    THEN (IF front_ok THEN [board |-> SetLevel(b, "front", level), ok |-> TRUE]
          ELSE [board |-> b, ok |-> FALSE])
    ELSE (IF bottom_ok THEN [board |-> SetLevel(b, "bottom", level), ok |-> TRUE]
          ELSE [board |-> b, ok |-> FALSE])

\* stampfly_tof_set_xshut(sensor, level): front_ok and bottom_ok say whether
\* gpio_set_level succeeds; the first failure returns at once.
stampfly_tof_set_xshut(b, sensor, level, front_ok, bottom_ok) ==
    IF sensor \in {"front", "both"} /\ ~front_ok
    THEN [board |-> b, ok |-> FALSE]
    ELSE IF sensor \in {"bottom", "both"} /\ ~bottom_ok
    THEN [board |-> IF sensor = "both" THEN SetLevel(b, "front", level) ELSE b,
          ok |-> FALSE]
    ELSE [board |-> IF sensor = "both"
                    THEN SetLevel(SetLevel(b, "front", level), "bottom", level)
                    ELSE SetLevel(b, sensor, level),
          ok |-> TRUE]

\* The sensors that answer to I2C address a.
Listening(b, a) == { s \in Sensors : b.addr[s] = a }

\* The i2c_addr field of the vl53l3cx_dev_t of sensor s, and the address
\* stampfly_tof_init gives it.
DevAddr(h, s) == IF s = "front" THEN h.front_sensor ELSE h.bottom_sensor
NewAddr(s) ==
    IF s = "front" THEN STAMPFLY_TOF_FRONT_I2C_ADDR
    ELSE STAMPFLY_TOF_BOTTOM_I2C_ADDR

\* The call goes on to the next step, or returns.
Advance(t, pc, at) == [t EXCEPT !.pc = pc, !.at = at, !.done = @ \cup {<<t.pc, t.at>>}]
Return(t, ret) == [t EXCEPT !.pc = "idle", !.ret = ret]

\* stampfly_tof_init(handle, i2c_port), up to "Step 1".
InitEnter ==
    /\ task.pc = "idle"
    /\ handle' = [handle EXCEPT !.initialized = FALSE]
    /\ task' = [TaskIdle EXCEPT !.op = "init", !.pc = "i2c", !.ret = "running"]
    /\ UNCHANGED <<g_handle, board, isr, ranging>>

\* "Step 1: Initialize I2C master" and "Step 2: Initialize GPIO pins";
\* gpio_config leaves the output levels as they are.
InitBus(ok) ==
    /\ task.op = "init"
    /\ task.pc \in {"i2c", "gpio"}
    /\ task' = IF ~ok THEN Return(task, "ESP_FAIL")
               ELSE IF task.pc = "i2c" THEN Advance(task, "gpio", "both")
               ELSE Advance(task, "shutdown", "both")
    /\ UNCHANGED <<handle, g_handle, board, isr, ranging>>

\* "Step 3: Shutdown all sensors".
InitShutdown(front_ok, bottom_ok) ==
    /\ task.op = "init"
    /\ task.pc = "shutdown"
    /\ board' = stampfly_tof_set_xshut(board, "both", 0, front_ok, bottom_ok).board
    /\ task' = IF front_ok /\ bottom_ok THEN Advance(task, "wake", "front")
               ELSE Return(task, "ESP_FAIL")
    /\ UNCHANGED <<handle, g_handle, isr, ranging>>

\* "Wake up front sensor only" and "Wake up bottom sensor".
InitWake(ok) ==
    /\ task.op = "init"
    /\ task.pc = "wake"
    /\ board' = stampfly_tof_set_xshut(board, task.at, 1, ok, ok).board
    /\ task' = IF ok THEN Advance(task, "sensor", task.at)
               ELSE Return(task, "ESP_FAIL")
    /\ UNCHANGED <<handle, g_handle, isr, ranging>>

\* "Initialize with default address (0x29)": vl53l3cx_init records the
\* address and then talks to it, which needs a sensor that answers.
InitSensor(ok) ==
    /\ task.op = "init"
    /\ task.pc = "sensor"
    /\ handle' = IF task.at = "front"
                 THEN [handle EXCEPT !.front_sensor = VL53L3CX_DEFAULT_I2C_ADDR]
                 ELSE [handle EXCEPT !.bottom_sensor = VL53L3CX_DEFAULT_I2C_ADDR]
    /\ task' = IF ok /\ Listening(board, VL53L3CX_DEFAULT_I2C_ADDR) # {}
               THEN Advance(task, "address", task.at)
               ELSE Return(task, "ESP_FAIL")
    /\ UNCHANGED <<g_handle, board, isr, ranging>>

\* The outcomes of vl53l3cx_set_device_address: the write is not
\* acknowledged; it is acknowledged and a later step of the function fails;
\* it succeeds.
AddressOutcomes == {"nack", "late", "ok"}

\* The board once the write of the new address has been acknowledged:
\* every sensor that answers to the old address takes the new one.
AddressWritten(b, old, new) ==
    [b EXCEPT !.addr = [s \in Sensors |-> IF b.addr[s] = old THEN new ELSE b.addr[s]]]

\* "Change I2C address", and for the bottom sensor the end of the function.
InitAddress(outcome) ==
    /\ task.op = "init"
    /\ task.pc = "address"
    /\ IF outcome = "nack" \/ Listening(board, DevAddr(handle, task.at)) = {}
       THEN /\ task' = Return(task, "ESP_FAIL")
            /\ UNCHANGED <<handle, board>>
       ELSE /\ board' = AddressWritten(board, DevAddr(handle, task.at), NewAddr(task.at))
            /\ IF outcome = "late"
               THEN /\ task' = Return(task, "ESP_FAIL")
                    /\ UNCHANGED handle
               ELSE IF task.at = "front"
               THEN /\ handle' = [handle EXCEPT !.front_sensor = NewAddr("front")]
                    /\ task' = Advance(task, "wake", "bottom")
               ELSE /\ handle' = [handle EXCEPT !.bottom_sensor = NewAddr("bottom"),
                                                !.initialized = TRUE]
                    /\ task' = Return(Advance(task, "idle", "both"), "ESP_OK")
    /\ UNCHANGED <<g_handle, isr, ranging>>

\* stampfly_tof_deinit(handle): the result of stampfly_tof_set_xshut is
\* not looked at.
Deinit(front_ok, bottom_ok) ==
    /\ task.pc = "idle"
    /\ board' = stampfly_tof_set_xshut(board, "both", 0, front_ok, bottom_ok).board
    /\ handle' = [handle EXCEPT !.initialized = FALSE]
    /\ task' = [TaskIdle EXCEPT !.op = "deinit"]
    /\ UNCHANGED <<g_handle, isr, ranging>>

\* The boards stampfly_tof_init may find: each XSHUT line at either level
\* (pulled up at power-on, or as an earlier call left it), and a sensor
\* that is awake at the default address or at the one an earlier
\* stampfly_tof_init gave it.
Boards ==
    { b \in { [BoardOff EXCEPT !.xshut = x, !.addr = a] :
                x \in [Sensors -> {0, 1}],
                a \in [Sensors -> {0, VL53L3CX_DEFAULT_I2C_ADDR,
                                   STAMPFLY_TOF_FRONT_I2C_ADDR,
                                   STAMPFLY_TOF_BOTTOM_I2C_ADDR}] } :
        \A s \in Sensors :
           IF b.xshut[s] = 0 THEN b.addr[s] = 0
           ELSE b.addr[s] \in {VL53L3CX_DEFAULT_I2C_ADDR, NewAddr(s)} }

\* The filter and the single-sensor driver at rest.
NoRanging ==
    /\ filter = VL53LX_FilterInit
    /\ output_mm = 0
    /\ call = NoCall
    /\ trace = <<>>
    /\ result = NoResult
    /\ device = NoData

\* A handle in automatic storage, whose initialized holds what the stack
\* held, on a board in any state.
InitBringUp ==
    /\ NoRanging
    /\ handle \in { [NoHandle EXCEPT !.initialized = b] : b \in BOOLEAN }
    /\ g_handle = NoGlobalHandle
    /\ board \in Boards
    /\ task = TaskIdle
    /\ isr = [front |-> IsrIdle, bottom |-> IsrIdle]

NextBringUp ==
    \/ InitEnter
    \/ \E ok \in BOOLEAN : InitBus(ok)
    \/ \E front_ok, bottom_ok \in BOOLEAN : InitShutdown(front_ok, bottom_ok)
    \/ \E ok \in BOOLEAN : InitWake(ok)
    \/ \E ok \in BOOLEAN : InitSensor(ok)
    \/ \E outcome \in AddressOutcomes : InitAddress(outcome)
    \/ \E front_ok, bottom_ok \in BOOLEAN : Deinit(front_ok, bottom_ok)

SpecBringUp == InitBringUp /\ [][NextBringUp]_vars

\* ------------------------------------------------------------------------
\* stampfly_tof.c: the data-ready interrupts
\* ------------------------------------------------------------------------

\* handle->front_callback or handle->bottom_callback.
Callback(h, s) == IF s = "front" THEN h.front_callback ELSE h.bottom_callback

SetCallback(h, s, callback) ==
    IF s = "front" THEN [h EXCEPT !.front_callback = callback]
    ELSE [h EXCEPT !.bottom_callback = callback]

\* The sensor a call on selection sensor handles first, and the task once
\* it has dealt with sensor task.at: on to the bottom sensor at step pc
\* after the front one of STAMPFLY_TOF_SENSOR_BOTH, or return ESP_OK.
FirstOf(sensor) == IF sensor = "bottom" THEN "bottom" ELSE "front"
NextSensor(t, pc) ==
    IF t.sensor = "both" /\ t.at = "front" THEN Advance(t, pc, "bottom")
    ELSE Return(Advance(t, "idle", "both"), "ESP_OK")

\* stampfly_tof_enable_interrupt(handle, sensor, callback) up to the first
\* sensor: the argument check and gpio_install_isr_service.
EnableEnter(sensor, callback, ok) ==
    /\ task.pc = "idle"
    /\ task' = IF ~handle.initialized \/ callback = "NULL"
               THEN [TaskIdle EXCEPT !.op = "enable", !.sensor = sensor, !.callback = callback, !.ret = "ESP_ERR_INVALID_ARG"]
               ELSE IF ~ok
               THEN [TaskIdle EXCEPT !.op = "enable", !.sensor = sensor, !.callback = callback, !.ret = "ESP_FAIL"]
               ELSE [TaskIdle EXCEPT !.op = "enable", !.sensor = sensor, !.callback = callback, !.ret = "running", !.pc = "add", !.at = FirstOf(sensor)]
    /\ UNCHANGED <<handle, g_handle, board, isr, ranging>>

\* gpio_config and gpio_isr_handler_add for the INT pin of task.at: from
\* here on the pin's interrupt runs the handler.
EnableAdd(ok) ==
    /\ task.op = "enable"
    /\ task.pc = "add"
    /\ board' = IF ok THEN [board EXCEPT !.handler[task.at] = TRUE] ELSE board
    /\ task' = IF ok THEN Advance(task, "store", task.at)
               ELSE Return(task, "ESP_FAIL")
    /\ UNCHANGED <<handle, g_handle, isr, ranging>>

\* "handle->front_callback = callback;"
EnableStore ==
    /\ task.op = "enable"
    /\ task.pc = "store"
    /\ handle' = SetCallback(handle, task.at, task.callback)
    /\ task' = Advance(task, "publish", task.at)
    /\ UNCHANGED <<g_handle, board, isr, ranging>>

\* "g_front_handle = handle;"
EnablePublish ==
    /\ task.op = "enable"
    /\ task.pc = "publish"
    /\ g_handle' = [g_handle EXCEPT ![task.at] = "handle"]
    /\ task' = NextSensor(task, "add")
    /\ UNCHANGED <<handle, board, isr, ranging>>

\* stampfly_tof_disable_interrupt(handle, sensor) up to the first sensor.
DisableEnter(sensor) ==
    /\ task.pc = "idle"
    /\ task' = IF ~handle.initialized
               THEN [TaskIdle EXCEPT !.op = "disable", !.sensor = sensor, !.ret = "ESP_ERR_INVALID_ARG"]
               ELSE [TaskIdle EXCEPT !.op = "disable", !.sensor = sensor, !.ret = "running", !.pc = "remove", !.at = FirstOf(sensor)]
    /\ UNCHANGED <<handle, g_handle, board, isr, ranging>>

\* gpio_isr_handler_remove and gpio_set_intr_type(GPIO_INTR_DISABLE): the
\* pin starts no further run of the handler; a run under way goes on.
DisableRemove ==
    /\ task.op = "disable"
    /\ task.pc = "remove"
    /\ board' = [board EXCEPT !.handler[task.at] = FALSE]
    /\ task' = Advance(task, "clear_callback", task.at)
    /\ UNCHANGED <<handle, g_handle, isr, ranging>>

\* "handle->front_callback = NULL;"
DisableClearCallback ==
    /\ task.op = "disable"
    /\ task.pc = "clear_callback"
    /\ handle' = SetCallback(handle, task.at, "NULL")
    /\ task' = Advance(task, "clear_handle", task.at)
    /\ UNCHANGED <<g_handle, board, isr, ranging>>

\* "g_front_handle = NULL;"
DisableClearHandle ==
    /\ task.op = "disable"
    /\ task.pc = "clear_handle"
    /\ g_handle' = [g_handle EXCEPT ![task.at] = "NULL"]
    /\ task' = NextSensor(task, "remove")
    /\ UNCHANGED <<handle, board, isr, ranging>>

\* A falling edge on the INT pin of sensor s starts its handler.
IsrFire(s) ==
    /\ isr[s].pc = "idle"
    /\ board.handler[s]
    /\ isr' = [isr EXCEPT ![s] = [IsrIdle EXCEPT !.pc = "handle"]]
    /\ UNCHANGED <<handle, g_handle, board, task, ranging>>

\* "g_front_handle != NULL"
IsrReadHandle(s) ==
    /\ isr[s].pc = "handle"
    /\ isr' = [isr EXCEPT ![s] =
                 IF g_handle[s] = "NULL" THEN [IsrIdle EXCEPT !.last = "returned"]
                 ELSE [@ EXCEPT !.pc = "callback", !.h = g_handle[s]]]
    /\ UNCHANGED <<handle, g_handle, board, task, ranging>>

\* "g_front_handle->front_callback != NULL": g_front_handle is not
\* volatile, so the build either reads it again (reload) or uses the
\* value it has in a register; reading through NULL is a fault.
IsrReadCallback(s, reload) ==
    /\ isr[s].pc = "callback"
    /\ isr' = [isr EXCEPT ![s] =
                 IF reload /\ g_handle[s] = "NULL"
                 THEN [@ EXCEPT !.pc = "fault", !.last = "null handle"]
                 ELSE IF Callback(handle, s) = "NULL"
                 THEN [IsrIdle EXCEPT !.last = "returned"]
                 ELSE [@ EXCEPT !.pc = "call", !.cb = Callback(handle, s)]]
    /\ UNCHANGED <<handle, g_handle, board, task, ranging>>

\* "g_front_handle->front_callback(g_front_handle, ...)": again the build
\* either reads the two pointers again or calls what it has in registers.
IsrCall(s, reload) ==
    /\ isr[s].pc = "call"
    /\ isr' = [isr EXCEPT ![s] =
                 IF reload /\ g_handle[s] = "NULL"
                 THEN [@ EXCEPT !.pc = "fault", !.last = "null handle"]
                 ELSE IF reload /\ Callback(handle, s) = "NULL"
                 THEN [@ EXCEPT !.pc = "fault", !.last = "null callback"]
                 ELSE [IsrIdle EXCEPT !.last = "called"]]
    /\ UNCHANGED <<handle, g_handle, board, task, ranging>>

\* The callbacks a caller passes.
Callbacks == {"NULL", "on_data_ready"}

\* Both sensors brought up by stampfly_tof_init, no interrupt enabled.
InitInterrupt ==
    /\ NoRanging
    /\ handle = [NoHandle EXCEPT !.front_sensor = STAMPFLY_TOF_FRONT_I2C_ADDR,
                                 !.bottom_sensor = STAMPFLY_TOF_BOTTOM_I2C_ADDR,
                                 !.initialized = TRUE]
    /\ g_handle = NoGlobalHandle
    /\ board = [BoardOff EXCEPT !.xshut = [front |-> 1, bottom |-> 1],
                                !.addr = [front |-> STAMPFLY_TOF_FRONT_I2C_ADDR,
                                          bottom |-> STAMPFLY_TOF_BOTTOM_I2C_ADDR]]
    /\ task = TaskIdle
    /\ isr = [front |-> IsrIdle, bottom |-> IsrIdle]

\* The task and the two handlers, in any interleaving.
NextInterrupt ==
    \/ \E sensor \in Selections, callback \in Callbacks, ok \in BOOLEAN :
          EnableEnter(sensor, callback, ok)
    \/ \E ok \in BOOLEAN : EnableAdd(ok)
    \/ EnableStore
    \/ EnablePublish
    \/ \E sensor \in Selections : DisableEnter(sensor)
    \/ DisableRemove
    \/ DisableClearCallback
    \/ DisableClearHandle
    \/ \E s \in Sensors : IsrFire(s)
    \/ \E s \in Sensors : IsrReadHandle(s)
    \/ \E s \in Sensors, reload \in BOOLEAN : IsrReadCallback(s, reload)
    \/ \E s \in Sensors, reload \in BOOLEAN : IsrCall(s, reload)

SpecInterrupt == InitInterrupt /\ [][NextInterrupt]_vars

\* The fields keep to their C types and the float fields are finite.
TypeOK ==
    /\ filter.head \in 0..(filter.config.window_size - 1)
    /\ filter.count \in 0..filter.config.window_size
    /\ filter.last_output \in 0..65535
    /\ filter.rejected_count \in 0..255
    /\ filter.samples_since_reset \in 0..255
    /\ output_mm \in 0..65535
    /\ filter.kalman_x.e \in -149..104
    /\ filter.kalman_p.e \in -149..104

\* ------------------------------------------------------------------------
\* Properties
\* ------------------------------------------------------------------------

Kalman == filter.config.filter_type = "KALMAN"

\* The step is a VL53LX_FilterUpdate call on an initialised Kalman filter.
KalmanUpdate == call'.op = "Update" /\ filter.initialized /\ Kalman

\* The fields VL53LX_FilterReset sets, at the values it sets them to.
IsReset(f) ==
    /\ ~f.kalman_initialized
    /\ f.kalman_p = F32_1000_0
    /\ f.kalman_x = F32Zero
    /\ f.last_output = 0
    /\ f.rejected_count = 0
    /\ f.samples_since_reset = 0

\* The integer nearest to a non-negative binary32 value below 2^24 (halves
\* up), computed exactly on the significand.
NearestInt(x) ==
    IF x.e >= 0 THEN x.m * Pow2(x.e)
    ELSE IF x.e < -25 THEN 0
    ELSE (x.m + Pow2(-x.e - 1)) \div Pow2(-x.e)

\* C1: a Kalman filter that is Uninitialized bootstraps from every sample
\* that passes the status gate, whatever its distance: the rate gate passes,
\* the call returns true and writes the raw distance, and afterwards the
\* estimate is the distance, the covariance is R, the filter is Tracking,
\* last_output is the distance and samples_since_reset is 1.
C1_Bootstrap ==
    [][ (KalmanUpdate /\ ~filter.kalman_initialized /\ call'.status_valid)
        => /\ call'.rate_valid
           /\ call'.ret
           /\ call'.wrote
           /\ output_mm' = call'.distance_mm
           /\ filter'.kalman_x = F32FromU16(call'.distance_mm)
           /\ filter'.kalman_p = filter.config.kalman_measurement_noise
           /\ filter'.kalman_initialized
           /\ filter'.last_output = call'.distance_mm
           /\ filter'.samples_since_reset = 1 ]_vars

\* A bootstrap from the largest distance has happened.
C1_Witness ==
    /\ call.op = "Update"
    /\ Kalman
    /\ call.ret
    /\ call.distance_mm = 65535
    /\ output_mm = 65535
    /\ filter.kalman_initialized
    /\ filter.samples_since_reset = 1
    /\ filter.config.enable_rate_limit

\* C2: a Kalman filter that is Uninitialized fails the call for a sample
\* that fails validation: it returns false, does not write the output and
\* leaves estimate, covariance, the initialized flag, last_output and
\* samples_since_reset as they were.
C2_BootstrapRejected ==
    [][ (/\ KalmanUpdate
         /\ ~filter.kalman_initialized
         /\ ~(call'.status_valid /\ call'.rate_valid))
        => /\ ~call'.ret
           /\ ~call'.wrote
           /\ output_mm' = output_mm
           /\ filter'.kalman_x = filter.kalman_x
           /\ filter'.kalman_p = filter.kalman_p
           /\ ~filter'.kalman_initialized
           /\ filter'.last_output = filter.last_output
           /\ filter'.samples_since_reset = filter.samples_since_reset ]_vars

\* An Uninitialized Kalman filter has just refused a sample, with an earlier
\* output still in the caller's variable.
C2_Witness ==
    /\ call.op = "Update"
    /\ Kalman
    /\ ~call.ret
    /\ ~call.status_valid
    /\ ~call.reset
    /\ ~filter.kalman_initialized
    /\ filter.rejected_count > 0
    /\ output_mm > 0

C4_PredictionOnly ==
    [][ (/\ KalmanUpdate
         /\ filter.kalman_initialized
         /\ ~(call'.status_valid /\ call'.rate_valid)
         /\ ~call'.reset)
        => /\ call'.ret
           /\ call'.wrote
           /\ output_mm' = NearestInt(filter.kalman_x)
           /\ filter'.kalman_x = filter.kalman_x
           /\ filter'.kalman_p =
                 F32Add(filter.kalman_p, filter.config.kalman_process_noise)
           /\ filter'.last_output = output_mm'
           /\ filter'.samples_since_reset = filter.samples_since_reset
           /\ filter'.kalman_initialized ]_vars

\* The sample of the call is rejected: it fails the status gate, the rate
\* gate, or both.
Rejected == ~(call'.status_valid /\ call'.rate_valid)

\* C5 as stated: every rejected call adds exactly one to rejected_count, so
\* the call that resets the filter is the one that finds the count at 4.
C5_OneCountPerRejectedCall ==
    [][ (call'.op = "Update" /\ filter.initialized /\ Rejected)
        => IF call'.reset
           THEN filter.rejected_count = 4
           ELSE filter'.rejected_count = filter.rejected_count + 1 ]_vars

AtRateGate ==
    StatusCheck(filter, call'.range_status, call'.ub).filter

\* C7: once 3 samples have been accepted a Tracking Kalman filter with the
\* rate limit enabled finds a sample rate-valid iff its distance differs
\* from last_output by at most max_change_rate_mm; an Uninitialized filter
\* and a filter with the rate limit disabled find every sample rate-valid.
C7_RateGate ==
    [][ KalmanUpdate
        => LET g == AtRateGate
           IN  /\ (/\ g.config.enable_rate_limit
                   /\ g.kalman_initialized
                   /\ g.samples_since_reset >= 3)
                  => (call'.rate_valid <=>
                        Abs(call'.distance_mm - g.last_output)
                            <= g.config.max_change_rate_mm)
               /\ (~g.config.enable_rate_limit \/ ~g.kalman_initialized)
                  => call'.rate_valid ]_vars

\* The fourth sample since the reset lay exactly max_change_rate_mm from
\* last_output and was accepted.
C7_Witness ==
    /\ call.op = "Update"
    /\ Kalman
    /\ filter.config.enable_rate_limit
    /\ filter.config.enable_status_check
    /\ call.rate_valid
    /\ call.ret
    /\ filter.samples_since_reset = 4
    /\ Abs(call.distance_mm - call.prev_output)
          = filter.config.max_change_rate_mm

\* C8 as stated: on a Tracking Kalman filter a status-valid sample that lies
\* more than max_change_rate_mm but at most 3 x max_change_rate_mm from
\* last_output is accepted while fewer than 3 samples have been accepted
\* since the reset, and rejected by the rate gate afterwards.
C8_GracePeriod ==
    [][ (/\ KalmanUpdate
         /\ filter.config.enable_rate_limit
         /\ filter.kalman_initialized
         /\ call'.status_valid
         /\ Abs(call'.distance_mm - filter.last_output)
               > filter.config.max_change_rate_mm
         /\ Abs(call'.distance_mm - filter.last_output)
               <= 3 * filter.config.max_change_rate_mm)
        => IF filter.samples_since_reset < 3
           THEN call'.rate_valid /\ call'.ret
                /\ filter'.samples_since_reset = filter.samples_since_reset + 1
           ELSE ~call'.rate_valid ]_vars

\* Bit number b of an 8-bit mask is set.
BitSet(mask, b) == b \in { i \in 0..7 : (mask \div Pow2(i)) % 2 = 1 }

\* C9: with the status check enabled a sample is status-valid iff bit
\* number range_status of valid_status_mask is set, for every range_status
\* 0..31 and every 8-bit mask, so that no status 8..31 is valid; with the
\* status check disabled every status is valid.
C9_StatusGate ==
    [][ (call'.op = "Update" /\ filter.initialized /\ call'.range_status <= 31)
        => (call'.status_valid <=>
              \/ ~filter.config.enable_status_check
              \/ BitSet(filter.config.valid_status_mask, call'.range_status))
      ]_vars

\* Status 7 has been accepted under the mask that has only bit 7 set.
C9_Witness ==
    /\ call.op = "Update"
    /\ filter.config.enable_status_check
    /\ filter.config.valid_status_mask = 128
    /\ call.range_status = 7
    /\ call.status_valid
    /\ call.ret
    /\ filter.kalman_initialized

\* The run so far is the scripted input sequence, or its first n calls.
ScenarioRun(n) ==
    /\ Len(trace) = n
    /\ [i \in 1..n |-> trace[i].call.distance_mm]
         = SubSeq(<<1000, 1005, 1600, 1008>>, 1, n)

\* C10 as stated: on a fresh Kalman filter with Q = 1.0, R = 4.0,
\* max_change_rate_mm = 500 and mask 0x01, the samples 1000, 1005, 1600, 1008
\* (status 0) give: output 1000; an output strictly between 1000 and 1005;
\* a rate rejection answered with the previous output; an accepted sample.
C10_ThirdCallRejected ==
    (ScenarioRun(4) /\ filter.config = ScenarioConfig)
    => /\ trace[1].call.ret /\ trace[1].output_mm = 1000
       /\ trace[2].call.ret
       /\ trace[2].output_mm > 1000 /\ trace[2].output_mm < 1005
       /\ ~trace[3].call.rate_valid
       /\ trace[3].call.ret
       /\ trace[3].output_mm = trace[2].output_mm
       /\ trace[4].call.ret
       /\ trace[4].call.status_valid /\ trace[4].call.rate_valid

\* C10 as amended: all four calls are accepted, return true and write an
\* output.  On the Kalman filter the outputs are 1000, 1003, 1269, 1162: the
\* third call is the third sample since initialisation, its rate limit is
\* three times 500, and |1600 - 1003| is within it, so the estimate moves
\* toward 1600; the fourth call is gated by the plain limit against 1269.
\* On the filter VL53LX_FilterInit sets up (median, window 5) the outputs are
\* 1000, 1005, 1005, 1006.
C10_ThirdCallAccepted ==
    ScenarioRun(4)
    => /\ \A i \in 1..4 :
             /\ trace[i].call.ret
             /\ trace[i].call.wrote
             /\ trace[i].call.status_valid
             /\ trace[i].call.rate_valid
       /\ filter.samples_since_reset = 4
       /\ filter.rejected_count = 0
       /\ filter.config = ScenarioConfig
            => /\ [i \in 1..4 |-> trace[i].output_mm]
                    = <<1000, 1003, 1269, 1162>>
               /\ trace[3].call.prev_output = 1003
               /\ trace[4].call.prev_output = 1269
       /\ filter.config = VL53LX_FilterGetDefaultConfig
            => [i \in 1..4 |-> trace[i].output_mm]
                  = <<1000, 1005, 1005, 1006>>

\* The scripted run has been made to its end on the Kalman filter.
C10_Witness ==
    /\ ScenarioRun(4)
    /\ filter.config = ScenarioConfig
    /\ call.op = "Update"
    /\ call.distance_mm = 1008
    /\ call.ret
    /\ filter.kalman_initialized

\* C11: the configuration VL53LX_FilterGetDefaultConfig returns, which is the
\* one VL53LX_FilterInit installs, is a Kalman configuration with Q = 1.0,
\* R = 4.0, max_change_rate_mm = 500 and valid_status_mask = 0x01, with the
\* status check and the rate limit both enabled.
C11_DefaultIsKalman ==
    /\ filter.config = VL53LX_FilterGetDefaultConfig
    /\ filter.config.filter_type = "KALMAN"
    /\ filter.config.kalman_process_noise = F32_1_0
    /\ filter.config.kalman_measurement_noise = F32_4_0
    /\ filter.config.max_change_rate_mm = 500
    /\ filter.config.valid_status_mask = 1
    /\ filter.config.enable_status_check
    /\ filter.config.enable_rate_limit

\* C12: VL53LX_FilterReset, called in any state of an initialised filter,
\* leaves kalman_initialized false, the covariance 1000, the estimate 0,
\* last_output 0, rejected_count 0 and samples_since_reset 0, and does not
\* touch the configuration; the first call after it whose sample passes the
\* status gate bootstraps the filter whatever the distance: the rate gate
\* is skipped, the call returns true and writes the raw distance, and the
\* estimate is the distance.
C12_Reset ==
    [][ /\ (call'.op = "Reset" /\ filter.initialized)
           => /\ IsReset(filter')
              /\ filter'.config = filter.config
              /\ filter'.initialized
        /\ (KalmanUpdate /\ call.op = "Reset" /\ call'.status_valid)
           => /\ call'.rate_valid
              /\ call'.ret
              /\ call'.wrote
              /\ output_mm' = call'.distance_mm
              /\ filter'.kalman_initialized
              /\ filter'.kalman_x = F32FromU16(call'.distance_mm)
              /\ filter'.last_output = call'.distance_mm ]_vars

\* A Tracking filter that had accepted samples has just been reset by
\* VL53LX_FilterReset.
C12_Witness ==
    /\ call.op = "Reset"
    /\ Kalman
    /\ IsReset(filter)
    /\ output_mm > 0

\* C13: the error covariance kalman_p is a number and is not negative, in
\* every state reached by VL53LX_FilterUpdate and VL53LX_FilterReset calls
\* on a Kalman filter configured with Q >= 0 and R > 0.
C13_CovarianceNonNegative ==
    Kalman => ~IsNaN(filter.kalman_p) /\ filter.kalman_p.m >= 0

\* C14: a VL53LX_FilterUpdate call adds one to samples_since_reset exactly
\* when its sample passes both gates and the call returns true, and then
\* only below 255, where the counter stays; every other call leaves the
\* counter as it was, except a call that resets the filter, and
\* VL53LX_FilterReset, which leave it 0.  The counter never wraps.
C14_SamplesSinceReset ==
    [][ /\ (call'.op = "Update" /\ filter.initialized)
           => /\ filter'.samples_since_reset \in 0..255
              /\ filter'.samples_since_reset =
                   IF call'.reset THEN 0
                   ELSE IF call'.status_valid /\ call'.rate_valid /\ call'.ret
                        THEN IF filter.samples_since_reset < 255
                             THEN filter.samples_since_reset + 1
                             ELSE 255
                   ELSE filter.samples_since_reset
        /\ call'.op = "Reset" => filter'.samples_since_reset = 0 ]_vars

\* Three more samples have been fully accepted, the last of them with the
\* counter at 255 already.
C14_Witness ==
    /\ Len(trace) = 3
    /\ \A i \in 1..3 : /\ trace[i].call.ret
                       /\ trace[i].call.status_valid
                       /\ trace[i].call.rate_valid
    /\ call.op = "Update"
    /\ call.status_valid
    /\ call.rate_valid
    /\ call.ret
    /\ call.prev_output = 1000
    /\ filter.samples_since_reset = 255
    /\ filter.rejected_count = 0

\* The last call was a read-out that filled result.
ReadOut == call.op = "GetRangingData" /\ call.ok

\* The bins of the peak search.
Window == 6..17

\* C15: when no bin in 6..17 exceeds the ambient estimate, in particular
\* when all 24 bins are zero, the read-out reports no target: peak_bin = 0
\* and distance_mm = 0.
C15_NoTarget ==
    (ReadOut /\ \A i \in Window : result.bin_data[i] <= result.ambient_estimate)
    => /\ result.peak_bin = 0
       /\ result.distance_mm = 0
       /\ ~call.found

\* A histogram with counts in the window, none above the ambient estimate,
\* has been read out.
C15_Witness ==
    /\ ReadOut
    /\ result.ambient_estimate > 0
    /\ \E i \in Window : result.bin_data[i] > 0
    /\ \A i \in Window : result.bin_data[i] <= result.ambient_estimate
    /\ result.peak_bin = 0
    /\ result.distance_mm = 0

\* The largest offset added to every bin, next to 4096.
MaxShift == 3

Shifts == 1..MaxShift \cup {4096}

\* The read-out r of the histogram raised by k agrees with the read-out made:
\* the ambient estimate is k higher, and the corrected bins, peak_bin, the
\* float distance and distance_mm are the same.
ShiftedSame(r, k) ==
    /\ r.result.ambient_estimate = result.ambient_estimate + k
    /\ r.call.corrected_bins = call.corrected_bins
    /\ r.result.peak_bin = result.peak_bin
    /\ r.call.distance = call.distance
    /\ r.result.distance_mm = result.distance_mm

\* C16: adding the same constant k >= 0 to all 24 bins, all bins staying
\* within 24 bits, raises ambient_estimate by exactly k and leaves every
\* ambient-corrected bin, peak_bin and distance_mm as they were (for an
\* undefined conversion: under the same choice of the build).
C16_UniformOffset ==
    ReadOut
    => \A k \in Shifts :
          (\A i \in Bins : result.bin_data[i] + k <= MaxCount)
          => ShiftedSame(
                 ExtractBins([range_status |-> result.range_status,
                              stream_count |-> result.stream_count],
                             [i \in Bins |-> result.bin_data[i] + k],
                             call.ub),
                 k)

\* A histogram with a background and a peak above it has been read out, and
\* it has room for the offsets.
C16_Witness ==
    /\ ReadOut
    /\ call.found
    /\ result.ambient_estimate = MaxBackground
    /\ result.distance_mm > 0
    /\ \A i \in Bins : result.bin_data[i] + 4096 <= MaxCount

\* C17: peak_bin is the lowest index in 6..17 that attains the maximum
\* ambient-corrected count over bins 6..17 when that maximum is positive,
\* and 0 otherwise; it is never in 1..5 or 18..23; and every corrected bin
\* is the count less the ambient estimate, or 0 for a count at or below it,
\* so none is negative.
C17_PeakBin ==
    ReadOut
    => /\ \A i \in Bins :
             /\ call.corrected_bins[i] >= 0
             /\ call.corrected_bins[i] =
                   IF result.bin_data[i] <= result.ambient_estimate THEN 0
                   ELSE result.bin_data[i] - result.ambient_estimate
       /\ result.peak_bin \in {0} \cup Window
       /\ IF \E i \in Window : call.corrected_bins[i] > 0
          THEN /\ result.peak_bin \in Window
               /\ \A i \in Window :
                     /\ call.corrected_bins[i]
                           <= call.corrected_bins[result.peak_bin]
                     /\ i < result.peak_bin
                           => call.corrected_bins[i]
                                 < call.corrected_bins[result.peak_bin]
               /\ call.max_count = call.corrected_bins[result.peak_bin]
          ELSE result.peak_bin = 0

\* A histogram whose largest corrected count in the window occurs twice, and
\* whose largest count over all lies outside the window, has been read out.
C17_Witness ==
    /\ ReadOut
    /\ result.peak_bin \in Window
    /\ \E i \in Window :
          /\ i > result.peak_bin
          /\ call.corrected_bins[i] = call.corrected_bins[result.peak_bin]
    /\ \E i \in Bins \ Window :
          call.corrected_bins[i] > call.corrected_bins[result.peak_bin]

\* Twice the bin width in mm: 30 for peak_bin < 12, 25 from 12 on.
TwiceWidth(peak_bin) == IF peak_bin < 12 THEN 30 ELSE 25

\* The exact value of (peak_bin + 0.5 (a - c) / denominator) x width is
\* ExactWhole + ExactFrac / ExactDen with 0 <= ExactFrac < ExactDen, computed
\* on integers (the offset is 0 for a zero denominator).
ExactDen == IF call.denominator = 0 THEN 4 ELSE 4 * Abs(call.denominator)

ExactOffsetNum ==
    IF call.denominator = 0 THEN 0
    ELSE Sgn(call.denominator) * (call.a - call.c) * TwiceWidth(result.peak_bin)

ExactFracRaw ==
    ((result.peak_bin * TwiceWidth(result.peak_bin)) % 2) * (ExactDen \div 2)
      + (ExactOffsetNum % ExactDen)

ExactWhole ==
    (result.peak_bin * TwiceWidth(result.peak_bin)) \div 2
      + (ExactOffsetNum \div ExactDen)
      + (ExactFracRaw \div ExactDen)

ExactFrac == ExactFracRaw % ExactDen

\* C18 as stated: when a peak is found, distance_mm is
\* (peak_bin + sub-bin offset) x w rounded to the nearest integer, with
\* w = 15.0 mm for peak_bin < 12 and w = 12.5 mm for peak_bin >= 12.
C18_DistanceRounded ==
    (ReadOut /\ call.found /\ U16Defined(call.distance))
    => result.distance_mm = ExactWhole + ((2 * ExactFrac) \div ExactDen)

\* C18 as amended: when a peak is found and the float product
\* (peak_bin + sub-bin offset) x w converts to uint16_t, distance_mm is that
\* product truncated toward zero, with w = 15.0 mm for peak_bin < 12 and
\* w = 12.5 mm for peak_bin >= 12: the integer part of the exact value,
\* except that the float rounding of a value within 1/64 of an integer may
\* carry it across that integer.
C18_DistanceTruncated ==
    (ReadOut /\ call.found /\ U16Defined(call.distance))
    => /\ call.distance = F32Mul(F32Add(F32FromInt(result.peak_bin),
                                        call.sub_bin_offset),
                                 IF result.peak_bin < 12
                                 THEN F32_15_0 ELSE F32_12_5)
       /\ result.distance_mm = F32Trunc(call.distance)
       /\ \/ result.distance_mm = ExactWhole
          \/ /\ result.distance_mm = ExactWhole + 1
             /\ ExactDen - ExactFrac <= ExactDen \div 64
          \/ /\ result.distance_mm = ExactWhole - 1
             /\ ExactFrac <= ExactDen \div 64

\* A peak has been found whose exact distance has a fraction of a half or
\* more, at a bin of the 12.5 mm width.
C18_Witness ==
    /\ ReadOut
    /\ call.found
    /\ U16Defined(call.distance)
    /\ result.peak_bin >= 12
    /\ call.denominator # 0
    /\ 2 * ExactFrac >= ExactDen
    /\ result.distance_mm = ExactWhole

\* C19: when a peak is found and the denominator a - 2b + c is not zero, the
\* sub-bin offset 0.5 (a - c) / (a - 2b + c) lies in [-0.5, +0.5], for every
\* peak position 6..17.
C19_OffsetWithinHalf ==
    (ReadOut /\ call.found /\ call.denominator # 0)
    => /\ Abs(call.a - call.c) <= Abs(call.denominator)
       /\ ~F32Less(F32_0_5, call.sub_bin_offset)
       /\ ~F32Less(call.sub_bin_offset, F32Neg(F32_0_5))

\* C20: for every histogram of 24-bit counts, those with the peak at a
\* window edge included, the float distance that is converted to the
\* uint16_t distance_mm is not negative and not above 65535, so that the
\* conversion is defined.
C20_DistanceInRange ==
    ReadOut => U16Defined(call.distance)

\* ------------------------------------------------------------------------
\* The life of the estimate
\* ------------------------------------------------------------------------

\* C21: kalman_initialized goes from false to true only in an update call
\* whose sample passes both gates, and from true to false only through a
\* reset, the explicit one or the auto-reset of an update call; an update
\* call that does not reset leaves an initialised estimate initialised.
C21_InitializedTransitions ==
    [][Kalman =>
        /\ (~filter.kalman_initialized /\ filter'.kalman_initialized)
              => IF call'.op = "Update"
                 THEN call'.status_valid /\ call'.rate_valid /\ call'.ret
                 ELSE FALSE
        /\ (filter.kalman_initialized /\ ~filter'.kalman_initialized)
              => IF call'.op = "Update" THEN call'.reset
                 ELSE call'.op = "Reset"
        /\ (call'.op = "Update" /\ filter.kalman_initialized /\ ~call'.reset)
              => filter'.kalman_initialized]_vars

\* An auto-reset has just cleared an estimate that a fully valid sample had
\* set up.
C21_Witness ==
    /\ call.op = "Update"
    /\ Kalman
    /\ call.reset
    /\ ~call.ret
    /\ ~filter.kalman_initialized
    /\ call.prev_output > 0
    /\ filter.last_output = 0

\* C22: a Kalman filter gives at most 4 prediction-only outputs in a row:
\* of any 5 consecutive calls of a run of rejected calls one returns false,
\* and a call of the run that returns false after one that returned true
\* has reset the filter.
C22_AtMostFourPredictions ==
    Kalman =>
        /\ \A i \in 1..(Len(Pending) - 4) : \E j \in i..(i + 4) : ~trace[j].ret
        /\ \A i \in 2..Len(Pending) :
              (trace[i - 1].ret /\ ~trace[i].ret) => trace[i].reset

\* Four prediction-only outputs in a row, then the call that resets.
C22_Witness ==
    /\ Kalman
    /\ Len(trace) = 5
    /\ \A i \in 1..4 : trace[i].ret /\ ~trace[i].reset
    /\ ~trace[5].ret
    /\ trace[5].reset
    /\ ~filter.kalman_initialized

\* C23: while the status gate passes on every call, at most 5 calls in a row
\* are non-accepted: 4 prediction-only calls and the call that resets; the
\* next sample is accepted and becomes the new baseline.
C23_RateRejectionsEnd ==
    (Kalman /\ \A i \in 1..Len(trace) : trace[i].status_valid) =>
        /\ Len(Pending) <= 5
        /\ \A i \in 1..Len(Pending) :
              IF i < 5 THEN trace[i].ret /\ ~trace[i].reset
              ELSE ~trace[i].ret /\ trace[i].reset
        /\ Len(trace) = 6 =>
              /\ call.ret
              /\ output_mm = call.distance_mm
              /\ filter.last_output = call.distance_mm
              /\ filter.kalman_initialized
              /\ filter.kalman_x = F32FromU16(call.distance_mm)
              /\ filter.samples_since_reset = 1

\* Five rate rejections in a row, the fifth resetting, and the sample after
\* them accepted.
C23_Witness ==
    /\ Kalman
    /\ Len(trace) = 6
    /\ \A i \in 1..5 : trace[i].status_valid /\ ~trace[i].rate_valid
    /\ trace[5].reset
    /\ Accepted(trace[6])
    /\ call.distance_mm # call.prev_output
    /\ output_mm = call.distance_mm

\* The gates the sample of a recorded call failed.
GateFailures(e) ==
    (IF e.status_valid THEN 0 ELSE 1) + (IF e.rate_valid THEN 0 ELSE 1)

\* The gate failures of the first n calls of s that come after the last
\* resetting call among them.
RECURSIVE FailuresSinceReset(_, _)
FailuresSinceReset(s, n) ==
    IF n = 0 THEN 0
    ELSE IF s[n].reset THEN 0
    ELSE FailuresSinceReset(s, n - 1) + GateFailures(s[n])

\* C24: a fully accepted call leaves consecutive_rejections at 0, so the
\* counter reflects only the rejections made after the most recent accepted
\* call (or reset): rejections before it do not add up with later ones.
C24_CountSinceAccepted ==
    Kalman =>
        /\ filter.rejected_count = FailuresSinceReset(Pending, Len(Pending))
        /\ (trace # <<>> /\ Accepted(trace[Len(trace)]))
              => filter.rejected_count = 0

\* Four rejected calls, then an accepted one that clears the count.
C24_Witness ==
    /\ Kalman
    /\ Len(trace) = 5
    /\ \A i \in 1..4 : ~Accepted(trace[i]) /\ ~trace[i].reset
    /\ Accepted(trace[5])
    /\ filter.kalman_initialized
    /\ filter.rejected_count = 0

\* C25: between calls consecutive_rejections is in 0..4, for filters of
\* every type and every gate configuration: a count of 5 or more never
\* survives a call, and the 8-bit field never wraps.
C25_RejectionsBelowFive == filter.rejected_count \in 0..4

\* A buffer-based filter whose count has come to 4 by a sample that failed
\* both gates.
C25_Witness ==
    /\ call.op = "Update"
    /\ filter.config.filter_type = "MEDIAN"
    /\ ~call.status_valid
    /\ ~call.rate_valid
    /\ ~call.ret
    /\ filter.rejected_count = 4

\* C26 as stated: while samples_since_reset < 3 the effective rate limit is
\* 3 x max_change_rate_mm, never below max_change_rate_mm, so a sample
\* within max_change_rate_mm of last_output is rate-valid in the grace
\* period as it is outside it.
C26_GraceLimitNotSmaller ==
    [][ (/\ KalmanUpdate
         /\ AtRateGate.config.enable_rate_limit
         /\ AtRateGate.kalman_initialized
         /\ AtRateGate.samples_since_reset < 3)
        => /\ effective_rate_limit(AtRateGate)
                 = 3 * AtRateGate.config.max_change_rate_mm
           /\ effective_rate_limit(AtRateGate)
                 >= AtRateGate.config.max_change_rate_mm
           /\ Abs(call'.distance_mm - AtRateGate.last_output)
                 <= AtRateGate.config.max_change_rate_mm
              => call'.rate_valid ]_vars

\* C27: with enable_status_check and enable_rate_limit both false every
\* sample is fully accepted: consecutive_rejections stays 0, no auto-reset
\* occurs and every call on an initialised Kalman filter returns true.
C27_GatesDisabled ==
    [][ (/\ KalmanUpdate
         /\ ~filter.config.enable_status_check
         /\ ~filter.config.enable_rate_limit)
        => /\ call'.status_valid
           /\ call'.rate_valid
           /\ ~call'.reset
           /\ call'.ret
           /\ call'.wrote
           /\ filter'.rejected_count = 0
           /\ filter'.kalman_initialized ]_vars

\* A sample with an invalid status, further from last_output than the
\* limit, accepted after the grace period by a filter with both gates off.
C27_Witness ==
    /\ call.op = "Update"
    /\ Kalman
    /\ ~filter.config.enable_status_check
    /\ ~filter.config.enable_rate_limit
    /\ call.range_status = 4
    /\ Abs(call.distance_mm - call.prev_output) > filter.config.max_change_rate_mm
    /\ call.ret
    /\ filter.samples_since_reset = 4
    /\ filter.rejected_count = 0

\* C28 as stated: after a call that returns true last_output is the value
\* written to *output_mm; while a Kalman filter is Tracking last_output is
\* the estimate rounded to the nearest integer; a call that returns false
\* without resetting leaves last_output as it was.
C28_LastOutput ==
    Kalman =>
        /\ (call.op = "Update" /\ call.ret)
              => call.wrote /\ filter.last_output = output_mm
        /\ filter.kalman_initialized
              => filter.last_output = NearestInt(filter.kalman_x)
        /\ (call.op = "Update" /\ ~call.ret /\ ~call.reset)
              => filter.last_output = call.prev_output

\* The least and the greatest element of a non-empty sequence of numbers.
MinOf(s) == CHOOSE v \in { s[i] : i \in DOMAIN s } : \A i \in DOMAIN s : v <= s[i]

MaxOf(s) == CHOOSE v \in { s[i] : i \in DOMAIN s } : \A i \in DOMAIN s : v >= s[i]

\* C29 as stated: for a Kalman filter with Q >= 0 and R > 0 every output
\* made since the bootstrap lies between the least and the greatest of the
\* samples accepted since that bootstrap, and a rejected sample does not
\* move the estimate.
C29_OutputWithinSamples ==
    (Kalman /\ call.op = "Update" /\ call.wrote /\ filter.kalman_initialized)
        => /\ MinOf(trace) <= output_mm
           /\ output_mm <= MaxOf(trace)
           /\ ~(call.status_valid /\ call.rate_valid)
                 => output_mm = call.prev_output

\* ------------------------------------------------------------------------
\* Convergence on a constant distance
\* ------------------------------------------------------------------------

\* The float x1 lies between the floats x and d, ends included: it is no
\* further from d than x is.
NoFurther(x, x1, d) ==
    IF F32Less(d, x)
    THEN ~F32Less(x1, d) /\ ~F32Less(x, x1)
    ELSE ~F32Less(x1, x) /\ ~F32Less(d, x1)

\* The high and the low 24 bits of m * m + m * 2^s, for 0 <= m < 2^24 and
\* 0 <= s <= 24.
SquarePlus(m, s) ==
    LET xh  == m \div 4096
        xl  == m % 4096
        L   == xl * xl + ((2 * xh * xl) % 4096) * 4096
        H   == xh * xh + ((2 * xh * xl) \div 4096) + (L \div 16777216)
        low == (L % 16777216) + (m % Pow2(24 - s)) * Pow2(s)
    IN  <<H + (m \div Pow2(24 - s)) + (low \div 16777216), low % 16777216>>

\* P > P*, where P* is the positive root of P = (P + Q) R / (P + Q + R), that
\* is P * P + P * Q > Q * R, decided exactly on the significand of P.  Q and
\* R are powers of two and P is no less than Q / 2^24; for Q = 0 the root
\* is 0.
AbovePStar(P, Q, R) ==
    IF Q.m = 0 THEN P.m > 0
    ELSE LET v == SquarePlus(P.m, Q.e + 23 - P.e)
             t == (Q.e + 23) + (R.e + 23) - 2 * P.e - 24
         IN  v[1] > Pow2(t) \/ (v[1] = Pow2(t) /\ v[2] > 0)

\* The float next above the positive float P.
NextUp(P) ==
    IF P.m = 16777215 THEN [m |-> 8388608, e |-> P.e + 1]
    ELSE [m |-> P.m + 1, e |-> P.e]

\* The step is an accepted update of a Tracking Kalman filter.
ObservationUpdate ==
    /\ KalmanUpdate
    /\ filter.kalman_initialized
    /\ call'.status_valid
    /\ call'.rate_valid

C31_UninitialisedNoOp ==
    [][ /\ call'.op = "UpdateNull"
            => ~call'.ret /\ filter' = filter /\ output_mm' = output_mm
        /\ (call'.op = "Update" /\ trace = <<>>)
            => ~call'.ret /\ filter' = filter /\ output_mm' = output_mm
        /\ (call'.op \in {"Reset", "Deinit"} /\ trace = <<>>)
            => filter' = filter ]_vars

\* ------------------------------------------------------------------------
\* The buffer-based filters
\* ------------------------------------------------------------------------

\* The filter is of a buffer-based type: median, average or weighted
\* average.
Buffered == filter.config.filter_type # "KALMAN"

\* C32: a call on a buffer-based filter whose sample fails a gate returns
\* false, writes no output and does not store the sample: the buffers, head,
\* count and last_output are as before, unless the call triggers the
\* auto-reset, which empties the buffer.
C32_RejectedNotStored ==
    [][ (call'.op = "Update" /\ filter.initialized /\ Buffered /\ Rejected)
        => /\ ~call'.ret
           /\ ~call'.wrote
           /\ output_mm' = output_mm
           /\ filter'.buffer = filter.buffer
           /\ filter'.status_buffer = filter.status_buffer
           /\ IF call'.reset
              THEN filter'.head = 0 /\ filter'.count = 0
              ELSE /\ filter'.head = filter.head
                   /\ filter'.count = filter.count
                   /\ filter'.last_output = filter.last_output ]_vars

\* An averaging filter holding two samples has refused a third that jumped
\* too far.
C32_Witness ==
    /\ call.op = "Update"
    /\ filter.config.filter_type = "AVERAGE"
    /\ call.status_valid
    /\ ~call.rate_valid
    /\ ~call.ret
    /\ ~call.reset
    /\ filter.count = 2
    /\ filter.last_output = call.prev_output
    /\ filter.last_output > 0
    /\ output_mm = filter.last_output

\* The buffered samples.
Samples == SubSeq(filter.buffer, 1, filter.count)

\* The k-th smallest of the samples s: fewer than k are below it and at
\* least k are not above it.
KthSmallest(s, k) ==
    CHOOSE v \in { s[i] : i \in DOMAIN s } :
        /\ Cardinality({ i \in DOMAIN s : s[i] < v }) < k
        /\ Cardinality({ i \in DOMAIN s : s[i] <= v }) >= k

\* The median of the samples s: the middle one of an odd number, the
\* truncated mean of the two middle ones of an even number.
MedianOf(s) ==
    IF Len(s) % 2 = 1 THEN KthSmallest(s, (Len(s) + 1) \div 2)
    ELSE (KthSmallest(s, Len(s) \div 2) + KthSmallest(s, Len(s) \div 2 + 1)) \div 2

\* v occurs once among the samples s.
Once(s, v) == Cardinality({ i \in DOMAIN s : s[i] = v }) = 1

\* C33: a median filter that has accepted a sample and holds at least 3
\* outputs the median of the buffered samples, so a single largest or
\* smallest sample among them is never the output; holding fewer than 3 it
\* outputs the raw sample.
C33_MedianOutput ==
    (/\ call.op = "Update"
     /\ call.ret
     /\ filter.config.filter_type = "MEDIAN")
    => IF filter.count < 3
       THEN output_mm = call.distance_mm
       ELSE /\ output_mm = MedianOf(Samples)
            /\ Once(Samples, MaxOf(Samples)) => output_mm < MaxOf(Samples)
            /\ Once(Samples, MinOf(Samples)) => output_mm > MinOf(Samples)

\* Four samples are held, the third an outlier of 1600: the output is the
\* truncated mean of the two middle ones, 1000 and 1005.
C33_Witness ==
    /\ call.op = "Update"
    /\ call.ret
    /\ filter.config.filter_type = "MEDIAN"
    /\ filter.count = 4
    /\ filter.buffer[3] = 1600
    /\ Once(Samples, 1600)
    /\ output_mm = 1002

\* C38: in every state of a buffer-based filter head < window_size,
\* count <= window_size, and count < window_size implies head = count;
\* window_size is in 3..15, so the slots 0..count-1 the filters read have
\* all been written and the 15-entry scratch array of calculate_median
\* holds them.
C38_RingIndices ==
    (Buffered /\ filter.initialized)
    => /\ filter.config.window_size \in 3..15
       /\ Len(filter.buffer) = filter.config.window_size
       /\ filter.head \in 0..(filter.config.window_size - 1)
       /\ filter.count \in 0..filter.config.window_size
       /\ filter.count < filter.config.window_size
             => filter.head = filter.count
       /\ \A i \in 1..filter.count :
             /\ filter.buffer[i] # UNWRITTEN
             /\ filter.status_buffer[i] # UNWRITTEN

\* A weighted-average filter with a window of 3 has taken a fourth sample:
\* the ring is full and head has wrapped to slot 1.
C38_Witness ==
    /\ call.op = "Update"
    /\ call.ret
    /\ filter.config.filter_type = "WEIGHTED_AVG"
    /\ filter.config.window_size = 3
    /\ filter.count = 3
    /\ filter.head = 1
    /\ filter.samples_since_reset = 4

\* ------------------------------------------------------------------------
\* The read-out without interpolation
\* ------------------------------------------------------------------------

\* peak_bin x bin width, converted to an integer: 15 mm per bin below
\* bin 12, 12.5 mm per bin from bin 12 on.
WholeBinDistance(peak_bin) ==
    IF peak_bin < 12 THEN 15 * peak_bin ELSE (25 * peak_bin) \div 2

\* C34: when a peak is found and the denominator a - 2b + c is zero, no
\* division is made: the sub-bin offset is 0 and distance_mm is
\* peak_bin x bin width converted to an integer.
C34_ZeroDenominator ==
    (ReadOut /\ call.found /\ call.denominator = 0)
    => /\ call.sub_bin_offset = F32Zero
       /\ call.distance = F32Mul(F32FromInt(result.peak_bin),
                                 IF result.peak_bin < 12
                                 THEN F32_15_0 ELSE F32_12_5)
       /\ call.ub = "none"
       /\ result.distance_mm = WholeBinDistance(result.peak_bin)

\* The peak is at bin 17 with a rising flank beyond the window: a + c = 2b
\* with a # c, and the read-out reports 212 mm.
C34_Witness ==
    /\ ReadOut
    /\ call.found
    /\ call.denominator = 0
    /\ call.a # call.c
    /\ result.peak_bin = 17
    /\ result.distance_mm = 212

\* distance_mm for a peak at peak_bin with sub-bin offset 0.
UninterpolatedDistance(peak_bin) ==
    DistanceToU16(InterpolatedDistance(peak_bin, F32Zero), "zero")

\* C35: with a zero sub-bin offset the distance is non-decreasing in
\* peak_bin over 6..17: no peak at a lower bin of the window yields a larger
\* distance_mm than the one read out, the bins on the other side of the
\* change of bin width at bin 12 included.
C35_MonotoneInPeakBin ==
    (ReadOut /\ call.found /\ call.sub_bin_offset = F32Zero)
    => /\ result.peak_bin \in Window
       /\ result.distance_mm = UninterpolatedDistance(result.peak_bin)
       /\ \A lower \in 6..result.peak_bin :
             UninterpolatedDistance(lower) <= result.distance_mm

\* ------------------------------------------------------------------------
\* The two-sensor layer
\* ------------------------------------------------------------------------

\* The steps of stampfly_tof_init.
InitSteps ==
    { <<"i2c", "both">>, <<"gpio", "both">>, <<"shutdown", "both">>,
      <<"wake", "front">>, <<"sensor", "front">>, <<"address", "front">>,
      <<"wake", "bottom">>, <<"sensor", "bottom">>, <<"address", "bottom">> }

C37_HandlerNeverNull ==
    \A s \in Sensors : isr[s].pc # "fault"

====
